---- MODULE Spec2Model ----
(***************************************************************************)
(* A model of the real-time duplex core of the medical-intake frontend:    *)
(*   - WebSocketClient (frontend/lib/websocket-client.ts): health-gated    *)
(*     connect, reconnect with backoff, perishable sends, disconnect;      *)
(*     the dispatch of inbound frames to the registered handlers;          *)
(*   - AudioManager playback (frontend-zen/DOCS.md): the gapless playback  *)
(*     scheduler, with its playAudioChunk calls suspended at their awaits; *)
(*   - the conversation store (unnamed/part_012): transcript accumulators  *)
(*     and the messages they emit;                                         *)
(*   - AudioManager capture (frontend-zen/DOCS.md): microphone access, the *)
(*     capture graphs of the worklet and legacy paths, their release;      *)
(*   - capture framing (frontend-zen/IMPLEMENTATION_SUMMARY.md): the       *)
(*     AudioCaptureProcessor and the ScriptProcessorNode fed the same      *)
(*     samples;                                                            *)
(*   - convertToPCM16, pcm16ToAudioBuffer and detectAudioFormat, each      *)
(*     applied to arguments drawn by its own initial predicate;            *)
(*   - checkBackendHealth (unnamed/part_010): the retry loop of the        *)
(*     standalone health check;                                            *)
(*   - SimulationEngine (frontend/lib/simulation-engine.ts): scenario      *)
(*     playback with its calls suspended inside playExchange.              *)
(* Each component has its own specification over its own variables; the    *)
(* other components' variables stay at their initial value.                *)
(***************************************************************************)
EXTENDS Integers, Sequences, FiniteSets, TLC

(***************************************************************************)
(* Bounds of the model.                                                    *)
(***************************************************************************)
\* connect() calls the caller makes in one behaviour
MaxConnects == 2
\* distinct audio frames the caller hands to sendAudio
MaxFrames == 1
\* last tick of the playback clock
MaxClock == 5
\* sources alive at once (in flight, or stopped with their ended event pending)
MaxInFlight == 3
\* longest audio chunk, in bytes
MaxBytes == 4
\* longest buffer decodeAudioData gives, in ticks
MaxDecoded == 1
\* playAudioChunk calls waiting on a promise at once
MaxPending == 1
\* longest transcript chunk, in characters
MaxChunk == 1
\* longest accumulated transcript text, in characters
MaxAccum == 3
\* messages in the conversation
MaxMessages == 2
\* onDisconnected calls counted after a disconnect() (the count stops there)
MaxDisconnected == 2
\* media streams getUserMedia grants to one AudioManager
MaxStreams == 2
\* capture graphs (source node and processing node) one AudioManager builds
MaxGraphs == 2
\* startCapture() calls waiting on audioWorklet.addModule at once
MaxLoading == 1
\* most probes a health check is asked for
MaxProbes == 4
\* most exchanges of a scenario
MaxExchanges == 2
\* play() and nextStep() calls inside playExchange at once
MaxCalls == 2
\* deliveries of one message counted
MaxDeliveries == 2
MaxAsking == 2
\* frames counted as delivered to the frame callback between two calls
MaxDelivered == 2
\* samples of one capture frame (4096 in the program, in both capture paths)
bufferSize == 3
\* samples captured in one behaviour
MaxInput == 7
\* largest block one process() call is given (a render quantum)
MaxBlock == 4
\* frames in flight at once in one capture path
MaxPosted == 2
\* longest array given to convertToPCM16
MaxFloats == 2
\* longest buffer given to detectAudioFormat, in bytes
MaxData == 5

(***************************************************************************)
(* Program constants.                                                      *)
(***************************************************************************)
maxReconnectAttempts == 5
reconnectDelay == 1000
maxHealthCheckAttempts == 10

(***************************************************************************)
(* WebSocketClient state.                                                  *)
(*                                                                         *)
(* A connect() call made by the caller starts a "chain": the call probes   *)
(* the backend, creates a socket, and every close of that socket schedules *)
(* (budget permitting) one timer whose firing is the next connect() call   *)
(* of the same chain.  A socket fires onclose once, so a chain is at any   *)
(* time exactly one of: a pending timer, a connect() call probing or       *)
(* sleeping, a socket that is CONNECTING, OPEN or CLOSING, or dead.        *)
(***************************************************************************)
VARIABLES
    ws,                  \* this.ws: 0 is null, i is the latest socket of chain i
    reconnectAttempts,   \* this.reconnectAttempts
    healthCheckAttempts, \* this.healthCheckAttempts (shared by all connect() calls)
    handlers,            \* the registered handlers
    chain,               \* chain[i]: where the i-th caller connect() has led
    connects,            \* number of connect() calls the caller has made
    ev,                  \* what the last step did (operation, callbacks, wire)
    retrySeq,            \* reports the retry observer received since the last open
    sinceOpen,           \* reconnect attempts scheduled since the last open
    afterDisconnect,     \* disconnect() was called and connect() not since
    exhausted,           \* the budget ran out and connect() was not called since
    terminalErrors,      \* 'Failed to reconnect' reports since the last connect()
    retriesInCall,       \* retry reports since the latest connect() call began
    disconnectedCalls    \* onDisconnected calls since disconnect() closed an open
                         \* socket (-1: no such disconnect() since the last connect())

transportVars == <<ws, reconnectAttempts, healthCheckAttempts, handlers, chain,
                   connects, ev, retrySeq, sinceOpen, afterDisconnect, exhausted,
                   terminalErrors, retriesInCall, disconnectedCalls>>

(***************************************************************************)
(* AudioManager playback state (frontend-zen/DOCS.md).  Time is counted in *)
(* ticks of the playback clock; a buffer of n PCM16 samples lasts n ticks. *)
(***************************************************************************)
VARIABLES
    clock,               \* playbackContext.currentTime
    audioQueue,          \* this.audioQueue: the durations of the queued buffers
    isPlaying,           \* this.isPlaying
    nextPlaybackTime,    \* this.nextPlaybackTime
    scheduledSources,    \* this.scheduledSources: [start, dur] of each source
    hasStartedPlayback,  \* this.hasStartedPlayback
    staleEnded,          \* stopped sources whose ended event is still to come
    run,                 \* the sources scheduled since the last stall or reset
    playbackContext,     \* this.playbackContext: "null", or the context's state
    pending,             \* the playAudioChunk calls waiting on a promise, oldest first
    pev,                 \* what the last playback step did
    initialBufferCount,  \* this.INITIAL_BUFFER_COUNT, fixed at construction
    queuedSinceReset     \* buffers pushed since construction or the last stopPlayback()

playbackVars == <<clock, audioQueue, isPlaying, nextPlaybackTime, scheduledSources,
                  hasStartedPlayback, staleEnded, run, playbackContext, pending, pev,
                  initialBufferCount, queuedSinceReset>>

(***************************************************************************)
(* The conversation store (useConversationStore).  Text is a sequence of   *)
(* characters; a message is its role and its content.                      *)
(***************************************************************************)
VARIABLES
    messages,            \* state.messages
    currentAIChunk,      \* state.currentAIChunk
    currentPatientChunk, \* state.currentPatientChunk
    lastRole,            \* state.lastRole: "ai", "patient" or "null"
    tev,                 \* the last call made to the store and its arguments
    runRole,             \* the role of the chunks appended last, "null" when the
                         \* last call was not appendTranscriptChunk
    runText,             \* the chunks of that role appended in a row, concatenated
    expected             \* the messages added or set, and one for each run of
                         \* chunks that ended holding text

transcriptVars == <<messages, currentAIChunk, currentPatientChunk, lastRole, tev,
                    runRole, runText, expected>>

(***************************************************************************)
(* AudioManager capture state (frontend-zen/DOCS.md).  A capture graph is  *)
(* what one startCapture() builds: a MediaStreamAudioSourceNode feeding an *)
(* AudioWorkletNode or, in the legacy path, a ScriptProcessorNode, itself  *)
(* connected to the destination.                                           *)
(***************************************************************************)
VARIABLES
    mediaStream,         \* this.mediaStream: 0 is null, k is the k-th stream granted
    streams,             \* streams[k]: the tracks of the k-th stream are live
    captureContext,      \* this.captureContext: "null", "bare", or "loaded" (with
                         \* the worklet module added)
    workletLoaded,       \* this.workletLoaded
    sourceNode,          \* this.sourceNode: 0 is null, n is the source of graph n
    workletNode,         \* this.workletNode: 0 is null, n is the worklet of graph n
    graphs,              \* the capture graphs built in the live context
    onAudioDataCallback, \* a frame callback is registered
    loading,             \* startCapture() calls waiting on addModule
    released,            \* nothing acquired yet, or stopCapture()/cleanup() returned,
                         \* and no stream was granted nor startCapture() called since
    delivered,           \* frames delivered to the callback since the last call
    returned,            \* how the last requestMicrophoneAccess()/startCapture() ended
    asked,               \* requestMicrophoneAccess() calls waiting on getUserMedia,
                         \* made since construction or the last stopCapture()
    askedBefore,         \* such calls made before the last stopCapture()
    grantedSince         \* a call made since construction or the last stopCapture()
                         \* has returned true

requestVars == <<asked, askedBefore, grantedSince>>

captureVars == <<mediaStream, streams, captureContext, workletLoaded, sourceNode,
                 workletNode, graphs, onAudioDataCallback, loading, released,
                 delivered, returned, requestVars>>

(***************************************************************************)
(* Capture framing (frontend-zen/IMPLEMENTATION_SUMMARY.md and DOCS.md).   *)
(* One stream of microphone samples is fed, block by block, to the two     *)
(* capture paths side by side: the AudioCaptureProcessor of the worklet    *)
(* path, whose frames travel through its message port, and the             *)
(* ScriptProcessorNode of the legacy path, whose audioprocess events the   *)
(* main thread handles.  A sample is the numerator of a fraction over      *)
(* Scale; a frame is a sequence of 16-bit integers.                        *)
(***************************************************************************)
VARIABLES
    input,          \* the samples captured so far
    buffer,         \* this.buffer[0 .. this.bufferIndex - 1] of the processor
    port,           \* frames posted by the processor, not yet received
    workletFrames,  \* frames the worklet path gave to the frame callback
    scriptBuffer,   \* samples the ScriptProcessorNode has buffered
    events,         \* audioprocess events (their inputBuffer) not yet handled
    legacyFrames,   \* frames the legacy path gave to the frame callback
    missed          \* a frame reached a path's handler with no callback registered

framingVars == <<input, buffer, port, workletFrames, scriptBuffer, events,
                 legacyFrames, missed>>

(***************************************************************************)
(* Sample conversion and format detection (frontend-zen/DOCS.md): the      *)
(* arguments and results of convertToPCM16, pcm16ToAudioBuffer and         *)
(* detectAudioFormat.                                                      *)
(***************************************************************************)
VARIABLES
    float32Array,   \* the samples given to convertToPCM16
    pcmData,        \* the bytes of the Int16Array it returned, or <<>>
    channelData,    \* what pcm16ToAudioBuffer wrote for those bytes, or <<>>
    formatData,     \* the buffer given to detectAudioFormat
    format          \* what it returned, or "none"

codecVars == <<float32Array, pcmData, channelData, formatData, format>>

\* what a step of one component leaves alone
(***************************************************************************)
(* checkBackendHealth (unnamed/part_010), the standalone health check of   *)
(* the landing page: one call at a time, suspended at its fetch and at its *)
(* sleep.  A delay is a number of eighths of a millisecond, so that the    *)
(* products by 1.5 the call computes are whole numbers.                    *)
(***************************************************************************)
VARIABLES
    options,             \* the options of the call, defaults filled in
    check,               \* the locals of the call: attempts, delay, wasColdStart;
                         \* where it waits; isHealthy of the result it returned
    failures,            \* probes of this call that did not answer healthy
    retries,             \* the delays handed to onRetry in this call, in order
    waits                \* the delays this call has slept, in order

healthVars == <<options, check, failures, retries, waits>>

(***************************************************************************)
(* SimulationEngine (frontend/lib/simulation-engine.ts).  A scenario is    *)
(* the number of its exchanges; a call of play() or nextStep() suspended   *)
(* in playExchange is a record of the exchange it plays and of the await   *)
(* it is at.                                                               *)
(***************************************************************************)
VARIABLES
    currentScenario,          \* 0 is null, n a scenario of n exchanges
    currentExchangeIndex,     \* this.currentExchangeIndex
    isRunning,                \* this.isRunning
    isPaused,                 \* this.isPaused
    onAIMessageCallback,      \* a callback is registered
    onPatientMessageCallback, \* a callback is registered
    onCompleteCallback,       \* a callback is registered
    inPlayExchange,           \* the play() and nextStep() calls inside playExchange
    deliveredAI,              \* deliveredAI[k]: times exchanges[k - 1].ai reached the
                              \* callback since the last loadScenario() or reset()
    deliveredPatient          \* the same for exchanges[k - 1].patient

simulationVars == <<currentScenario, currentExchangeIndex, isRunning, isPaused,
                    onAIMessageCallback, onPatientMessageCallback,
                    onCompleteCallback, inPlayExchange, deliveredAI,
                    deliveredPatient>>

standaloneVars == <<healthVars, simulationVars>>

besidesAudio == <<transportVars, transcriptVars, framingVars, codecVars, standaloneVars>>
besidesTransport == <<playbackVars, transcriptVars, captureVars, framingVars, codecVars,
                      standaloneVars>>
besidesPlayback == <<besidesAudio, captureVars>>
besidesCapture == <<besidesAudio, playbackVars>>
besidesTranscript == <<transportVars, playbackVars, captureVars, framingVars, codecVars,
                       standaloneVars>>
besidesFraming == <<transportVars, playbackVars, transcriptVars, codecVars,
                    standaloneVars>>
besidesCodec == <<transportVars, playbackVars, transcriptVars, captureVars, framingVars,
                  standaloneVars>>
besidesHealth == <<transportVars, playbackVars, transcriptVars, captureVars, framingVars,
                   codecVars, simulationVars>>
besidesSimulation == <<transportVars, playbackVars, transcriptVars, captureVars,
                       framingVars, codecVars, healthVars>>

Max(a, b) == IF a >= b THEN a ELSE b
Min(a, b) == IF a <= b THEN a ELSE b

Chains == 1..MaxConnects
Frames == 1..MaxFrames
ControlActions == {"start", "stop", "interrupt"}
SocketPhases == {"CONNECTING", "OPEN", "CLOSING"}
CallPhases == {"probing", "sleeping"}

\* the handlers the model reports to (onRetry, onError, onAudio, onTranscript,
\* onDataExtracted, onStatusUpdate, onTurnComplete, onIntakeComplete,
\* onConnected, onDisconnected)
Handlers == {"retry", "error", "audio", "transcript", "data", "status",
             "turnComplete", "intakeComplete", "connected", "disconnected"}

\* promise: the state of the promise the chain's latest connect() call returned
\* waited: that call is in waitForBackend, and a probe of it has failed
NoChain == [phase |-> "idle", via |-> "none", promise |-> "none", waited |-> FALSE]

NoEvent == [op |-> "init", who |-> 0, cbs |-> <<>>, sent |-> <<>>,
            made |-> "none", res |-> <<>>]

Event(op, who, cbs, sent, made, res) ==
    [op |-> op, who |-> who, cbs |-> cbs, sent |-> sent, made |-> made, res |-> res]

\* WebSocket.readyState of the latest socket of chain i
ReadyState(i) ==
    IF chain[i].phase \in SocketPhases THEN chain[i].phase ELSE "CLOSED"

TransportInit ==
    /\ ws = 0
    /\ reconnectAttempts = 0
    /\ healthCheckAttempts = 0
    /\ handlers = {}
    /\ chain = [i \in Chains |-> NoChain]
    /\ connects = 0
    /\ ev = NoEvent
    /\ retrySeq = <<>>
    /\ sinceOpen = 0
    /\ afterDisconnect = FALSE
    /\ exhausted = FALSE
    /\ terminalErrors = 0
    /\ retriesInCall = 0
    /\ disconnectedCalls = -1

\* onAudio(h) .. onIntakeComplete(h): the caller registers its handlers, all
\* of them and before it connects
Register ==
    /\ handlers = {}
    /\ connects = 0
    /\ handlers' = Handlers
    /\ ev' = Event("register", 0, <<>>, <<>>, "none", <<>>)
    /\ UNCHANGED <<ws, reconnectAttempts, healthCheckAttempts, chain, connects,
                   retrySeq, sinceOpen, afterDisconnect, disconnectedCalls, exhausted,
                   terminalErrors, retriesInCall>>
    /\ UNCHANGED besidesTransport

(***************************************************************************)
(* connect(): waitForBackend() resets the shared probe counter and issues  *)
(* the first probe synchronously.                                          *)
(***************************************************************************)
StartCall(i) ==
    /\ healthCheckAttempts' = 0
    /\ chain' = [chain EXCEPT ![i] = [phase |-> "probing", via |-> "none",
                                           promise |-> "pending", waited |-> FALSE]]
    /\ retriesInCall' = 0

Connect ==
    /\ connects < MaxConnects
    /\ connects' = connects + 1
    /\ StartCall(connects + 1)
    /\ afterDisconnect' = FALSE
    /\ exhausted' = FALSE
    /\ terminalErrors' = 0
    /\ disconnectedCalls' = -1
    /\ ev' = Event("connect", connects + 1, <<>>, <<>>, "none", <<>>)
    /\ UNCHANGED <<ws, reconnectAttempts, handlers, retrySeq, sinceOpen>>
    /\ UNCHANGED besidesTransport

\* new WebSocket(wsUrl): the socket of chain i becomes this.ws
CreateSocket(i, via) ==
    /\ chain' = [chain EXCEPT ![i].phase = "CONNECTING", ![i].via = via,
                              ![i].waited = FALSE]
    /\ ws' = i

\* (mutant) the loop gives up one failed probe early
MayProbeOffByOne == healthCheckAttempts + 1 < maxHealthCheckAttempts

\* the loop condition of waitForBackend
MayProbe == healthCheckAttempts < maxHealthCheckAttempts

Report(h, what) == IF h \in handlers THEN <<what>> ELSE <<>>

\* (mutant) a failed probe is reported to the retry observer
ProbeFailureReportsRetry ==
    Report("retry", <<"retry", healthCheckAttempts + 1, maxHealthCheckAttempts>>)

\* what a failed probe tells the client's handlers: waitForBackend only logs
ProbeFailureReports == <<>>

\* the backoff sleep after a failed probe, in ms, from the counter's new value
BackoffWait(attempts) == Min(500 * attempts, 3000)

\* checkBackendHealth() returns: healthy ends the wait and opens the socket,
\* unhealthy counts the failure and sleeps
ProbeReturn(i, ok) ==
    /\ chain[i].phase = "probing"
    /\ IF ok
         THEN /\ CreateSocket(i, "probe_ok")
              /\ UNCHANGED <<healthCheckAttempts, retriesInCall>>
              /\ ev' = Event("probe", i, <<>>, <<>>, "probe_ok", <<>>)
         ELSE /\ healthCheckAttempts' = healthCheckAttempts + 1
              /\ chain' = [chain EXCEPT ![i].phase = "sleeping", ![i].waited = TRUE]
              /\ ev' = Event("probe", i, ProbeFailureReports, <<>>, "none",
                             <<BackoffWait(healthCheckAttempts + 1), ~chain[i].waited>>)
              /\ retriesInCall' = retriesInCall + Len(ProbeFailureReports)
              /\ UNCHANGED ws
    /\ UNCHANGED <<reconnectAttempts, handlers, connects, retrySeq, sinceOpen,
                   afterDisconnect, disconnectedCalls, exhausted, terminalErrors>>
    /\ UNCHANGED besidesTransport

\* the backoff sleep ends: probe again, or give up waiting and connect anyway
Wake(i) ==
    /\ chain[i].phase = "sleeping"
    /\ IF MayProbe
         THEN /\ chain' = [chain EXCEPT ![i].phase = "probing"]
              /\ ev' = Event("wake", i, <<>>, <<>>, "none", <<>>)
              /\ UNCHANGED ws
         ELSE /\ CreateSocket(i, "timed_out")
              /\ ev' = Event("wake", i, <<>>, <<>>, "timed_out", <<>>)
    /\ UNCHANGED <<reconnectAttempts, healthCheckAttempts, handlers, connects,
                   retrySeq, sinceOpen, afterDisconnect, disconnectedCalls, exhausted, terminalErrors, retriesInCall>>
    /\ UNCHANGED besidesTransport

\* resolve() and reject() settle a pending promise; on a settled one they do
\* nothing
Resolve(promise) == IF promise = "pending" THEN "resolved" ELSE promise

Reject(promise) == IF promise = "pending" THEN "rejected" ELSE promise

\* what settling tells the caller of connect()
Settled(before, after) == IF before = after THEN <<>> ELSE <<<<after>>>>

\* (mutant) onopen resolves before it tells the onConnected handler
OpenResolvesFirst(promise) ==
    Settled(promise, Resolve(promise)) \o Report("connected", <<"connected">>)

\* the calls of ws.onopen, in order: onConnectedHandler(), resolve()
OpenCalls(promise) ==
    Report("connected", <<"connected">>) \o Settled(promise, Resolve(promise))

\* ws.onopen: the budget is restored and connect() resolves
SocketOpen(i) ==
    /\ chain[i].phase = "CONNECTING"
    /\ reconnectAttempts' = 0
    /\ chain' = [chain EXCEPT ![i].phase = "OPEN", ![i].via = "none",
                              ![i].promise = Resolve(@)]
    /\ retrySeq' = <<>>
    /\ sinceOpen' = 0
    /\ ev' = Event("open", i, OpenCalls(chain[i].promise), <<>>, "none",
                   <<chain[i].via>>)
    /\ UNCHANGED <<ws, healthCheckAttempts, handlers, connects, afterDisconnect, disconnectedCalls,
                   exhausted, terminalErrors, retriesInCall>>
    /\ UNCHANGED besidesTransport

\* (mutant) one attempt too many
HasBudgetOffByOne == reconnectAttempts <= maxReconnectAttempts

\* the guard of attemptReconnect
HasBudget == reconnectAttempts < maxReconnectAttempts

\* (mutant) a flat delay
ReconnectDelayFlat(attempt) == reconnectDelay

\* the delay attemptReconnect hands to setTimeout
ReconnectDelay(attempt) == reconnectDelay * attempt

\* the calls of ws.onerror, in order: onErrorHandler(err), reject(err)
ErrorCalls(promise, withError) ==
    IF withError
      THEN Report("error", <<"error", "connection">>)
           \o Settled(promise, Reject(promise))
      ELSE <<>>

\* the call onclose makes before attemptReconnect(): onDisconnectedHandler()
CloseCalls == Report("disconnected", <<"disconnected">>)

\* ws.onerror (when the close is abnormal), then ws.onclose -> attemptReconnect()
SocketClose(i, withError) ==
    /\ chain[i].phase \in SocketPhases
    /\ chain[i].phase = "CONNECTING" => withError
    /\ disconnectedCalls' =
           IF disconnectedCalls >= 0 /\ disconnectedCalls < MaxDisconnected
             THEN disconnectedCalls + Len(CloseCalls)
             ELSE disconnectedCalls
    /\ LET errs == ErrorCalls(chain[i].promise, withError) \o CloseCalls
           how == IF withError THEN "error" ELSE "clean"
       IN IF HasBudget
            THEN /\ reconnectAttempts' = reconnectAttempts + 1
                 /\ chain' = [chain EXCEPT ![i] = [NoChain EXCEPT !.phase = "timer"]]
                 /\ retriesInCall' = retriesInCall + Len(Report("retry", "r"))
                 /\ retrySeq' = retrySeq \o
                        Report("retry", [attempt |-> reconnectAttempts + 1,
                                         max |-> maxReconnectAttempts,
                                         delay |-> ReconnectDelay(reconnectAttempts + 1)])
                 /\ sinceOpen' = sinceOpen + 1
                 /\ ev' = Event("close", i,
                        errs \o Report("retry", <<"retry", reconnectAttempts + 1,
                                                  maxReconnectAttempts>>)
                             \o <<<<"setTimeout", ReconnectDelay(reconnectAttempts + 1)>>>>,
                        <<>>, how, <<reconnectAttempts>>)
                 /\ UNCHANGED <<exhausted, terminalErrors>>
            ELSE /\ chain' = [chain EXCEPT ![i] = [NoChain EXCEPT !.phase = "dead"]]
                 /\ exhausted' = TRUE
                 /\ terminalErrors' = terminalErrors + Len(Report("error", "t"))
                 /\ ev' = Event("close", i,
                        errs \o Report("error", <<"error", "terminal">>),
                        <<>>, how, <<reconnectAttempts>>)
                 /\ UNCHANGED <<reconnectAttempts, retrySeq, sinceOpen, retriesInCall>>
    /\ UNCHANGED <<ws, healthCheckAttempts, handlers, connects, afterDisconnect>>
    /\ UNCHANGED besidesTransport

\* the reconnect timer fires: this.connect()
TimerFire(i) ==
    /\ chain[i].phase = "timer"
    /\ StartCall(i)
    /\ ev' = Event("timer", i, <<>>, <<>>, "none", <<>>)
    /\ UNCHANGED <<ws, reconnectAttempts, handlers, connects, retrySeq, sinceOpen,
                   afterDisconnect, disconnectedCalls, exhausted, terminalErrors>>
    /\ UNCHANGED besidesTransport

\* disconnect(): ws.close() starts the closing handshake of a socket that is
\* not closed yet; the handlers stay attached and no timer is cleared
Disconnect ==
    /\ IF ws # 0
         THEN /\ chain' = [chain EXCEPT ![ws] =
                              IF @.phase \in {"CONNECTING", "OPEN"}
                                THEN [@ EXCEPT !.phase = "CLOSING", !.via = "none"]
                                ELSE @]
              /\ disconnectedCalls' = IF chain[ws].phase = "OPEN" THEN 0 ELSE -1
         ELSE UNCHANGED <<chain, disconnectedCalls>>
    /\ ws' = 0
    /\ afterDisconnect' = TRUE
    /\ ev' = Event("disconnect", ws, <<>>, <<>>,
                   IF ws # 0 /\ chain[ws].phase \in {"CONNECTING", "OPEN"}
                     THEN "closing" ELSE "none", <<>>)
    /\ UNCHANGED <<reconnectAttempts, healthCheckAttempts, handlers, connects,
                   retrySeq, sinceOpen, exhausted, terminalErrors, retriesInCall>>
    /\ UNCHANGED besidesTransport

\* (mutant) the readyState test is missing
CanSendAnySocket == ws # 0

\* the guard of endSession, sendAudio and sendControl
CanSend == ws # 0 /\ ReadyState(ws) = "OPEN"

Send(op, msg) ==
    /\ ev' = Event(op, ws, <<>>,
                   IF CanSend THEN <<[to |-> ws, msg |-> msg]>> ELSE <<>>,
                   IF CanSend THEN "sent" ELSE "dropped", <<>>)
    /\ UNCHANGED <<ws, reconnectAttempts, healthCheckAttempts, handlers, chain,
                   connects, retrySeq, sinceOpen, afterDisconnect, disconnectedCalls, exhausted,
                   terminalErrors, retriesInCall>>
    /\ UNCHANGED besidesTransport

SendAudio(f) == Send("sendAudio", <<"binary", f>>)

SendControl(a) == Send("sendControl", [type |-> "control", action |-> a])

EndSession == Send("endSession", [type |-> "end_session"])

TransportNext ==
    \/ Register
    \/ Connect
    \/ Disconnect
    \/ \E i \in Chains, ok \in BOOLEAN : ProbeReturn(i, ok)
    \/ \E i \in Chains : Wake(i)
    \/ \E i \in Chains : SocketOpen(i)
    \/ \E i \in Chains, withError \in BOOLEAN : SocketClose(i, withError)
    \/ \E i \in Chains : TimerFire(i)

\* the sends read this.ws and write nothing: they are taken with the steps
\* that make this.ws null, CONNECTING, OPEN, CLOSING or closed
SendNext ==
    \/ Register
    \/ Connect
    \/ Disconnect
    \/ \E i \in Chains, ok \in BOOLEAN : ProbeReturn(i, ok)
    \/ \E i \in Chains : Wake(i)
    \/ \E i \in Chains : SocketOpen(i)
    \/ \E i \in Chains, withError \in BOOLEAN : SocketClose(i, withError)
    \/ \E f \in Frames : SendAudio(f)
    \/ \E a \in ControlActions : SendControl(a)
    \/ EndSession


(***************************************************************************)
(* Inbound frames.  A text frame is the JSON object it parses to: its type *)
(* and the fields handleMessage reads, "absent" where the object has no    *)
(* such field; a frame that is no JSON has type "unparsable".  A binary    *)
(* frame arrives as an ArrayBuffer (binaryType is 'arraybuffer').          *)
(***************************************************************************)
Frame(type, role, text, data, state, message) ==
    [type |-> type, role |-> role, text |-> text, data |-> data,
     state |-> state, message |-> message]

Absent == "absent"

TextFrames ==
    {Frame("transcript", r, t, Absent, Absent, Absent) :
         r \in {Absent, "patient"}, t \in {Absent, "", "hi"}}
    \cup {Frame("text", Absent, Absent, d, Absent, Absent) : d \in {Absent, "hi"}}
    \cup {Frame("audio", Absent, Absent, d, Absent, Absent) : d \in {Absent, "bytes"}}
    \cup {Frame("extracted_data", r, Absent, d, Absent, Absent) :
              r \in {Absent, "patient"}, d \in {Absent, "intake"}}
    \cup {Frame("status", Absent, Absent, Absent, st, m) :
              st \in {Absent, "listening"}, m \in {Absent, "note"}}
    \cup {Frame("error", Absent, Absent, Absent, Absent, m) : m \in {Absent, "note"}}
    \cup {Frame("intake_complete", Absent, Absent, Absent, Absent, m) :
              m \in {Absent, "", "note"}}
    \cup {Frame(t, Absent, Absent, Absent, Absent, Absent) :
              t \in {"turn_complete", "ping", "unparsable"}}

BinaryFrames == {Frame("binary", Absent, Absent, "bytes", Absent, Absent)}

\* a ?? b
Coalesce(a, b) == IF a = Absent THEN b ELSE a

\* a || b, and the truth of a
Truthy(a) == a \notin {Absent, ""}

OrElse(a, b) == IF Truthy(a) THEN a ELSE b

\* (mutant) a status frame goes to the error handler
RouteStatusAsError(f) ==
    IF f.type = "status" THEN <<<<"error", [message |-> OrElse(f.state, f.message)]>>>>
    ELSE <<>>

\* the switch of handleMessage: the handler a frame is for and its argument
Route(f) ==
    CASE f.type = "audio" ->
           IF Truthy(f.data) THEN <<<<"audio", f.data>>>> ELSE <<>>
      [] f.type = "text" ->
           <<<<"transcript", [role |-> "assistant", text |-> f.data]>>>>
      [] f.type = "transcript" ->
           <<<<"transcript", [role |-> Coalesce(f.role, "assistant"),
                              text |-> Coalesce(f.text, "")]>>>>
      [] f.type = "extracted_data" -> <<<<"data", f.data>>>>
      [] f.type = "status" -> <<<<"status", OrElse(f.state, f.message)>>>>
      [] f.type = "error" -> <<<<"error", [message |-> f.message]>>>>
      [] f.type = "turn_complete" -> <<<<"turnComplete">>>>
      [] f.type = "intake_complete" ->
           <<<<"intakeComplete", OrElse(f.message, "Intake complete")>>>>
      [] f.type = "binary" -> <<<<"audio", f.data>>>>
      [] OTHER -> <<>>

\* (mutant) the error of JSON.parse leaves handleMessage
ParseErrorEscapes == FALSE

\* JSON.parse is inside the try of handleMessage: its error is caught and logged
CatchesParseError == TRUE

KnownTypes == {"audio", "text", "transcript", "extracted_data", "status", "error",
               "turn_complete", "intake_complete"}

\* how handleMessage (handleAudio for a binary frame) ends
Outcome(f) ==
    CASE f.type = "unparsable" -> IF CatchesParseError THEN "caught" ELSE "thrown"
      [] f.type \notin KnownTypes \cup {"binary"} -> "unknown"
      [] Route(f) # <<>> /\ Route(f)[1][1] \in handlers -> "handled"
      [] OTHER -> "ignored"

\* the outcome of the frame handled in the step before, when it was dropped
Dropped(e) ==
    IF e.op = "message" /\ e.made \in {"caught", "unknown", "thrown"}
      THEN e.made ELSE "none"

\* ws.onmessage of the socket of chain i: a message event is fired only while
\* the socket is OPEN, and a frame is handled to its end before the next event
OnMessage(i, f) ==
    /\ chain[i].phase = "OPEN"
    /\ ev' = Event("message", i,
                   IF Outcome(f) = "handled" THEN Route(f) ELSE <<>>,
                   <<>>, Outcome(f), <<f, Dropped(ev)>>)
    /\ UNCHANGED <<ws, reconnectAttempts, healthCheckAttempts, handlers, chain,
                   connects, retrySeq, sinceOpen, afterDisconnect, disconnectedCalls, exhausted,
                   terminalErrors, retriesInCall>>
    /\ UNCHANGED besidesTransport

\* connecting, and frames arriving on the sockets that opened
InboundNext ==
    \/ Register
    \/ Connect
    \/ \E i \in Chains, ok \in BOOLEAN : ProbeReturn(i, ok)
    \/ \E i \in Chains : Wake(i)
    \/ \E i \in Chains : SocketOpen(i)
    \/ \E i \in Chains, f \in TextFrames \cup BinaryFrames : OnMessage(i, f)


(***************************************************************************)
(* AudioManager capture.                                                   *)
(***************************************************************************)
GraphKinds == {"worklet", "legacy", "source"}

\* a capture graph: fed, its source node is connected to its processing node;
\* out, the processing node is connected to the destination; port, the
\* worklet's message port is open.  Kind "source" is a source node alone.
Graph(kind) ==
    [kind |-> kind, fed |-> kind # "source", out |-> kind # "source",
     port |-> kind = "worklet"]

CaptureInit ==
    /\ mediaStream = 0
    /\ streams = <<>>
    /\ captureContext = "null"
    /\ workletLoaded = FALSE
    /\ sourceNode = 0
    /\ workletNode = 0
    /\ graphs = <<>>
    /\ onAudioDataCallback = FALSE
    /\ loading = 0
    /\ released = TRUE
    /\ delivered = 0
    /\ returned = "none"
    /\ asked = 0
    /\ askedBefore = 0
    /\ grantedSince = FALSE

CaptureFields ==
    [stream |-> mediaStream, streams |-> streams, ctx |-> captureContext,
     loaded |-> workletLoaded, source |-> sourceNode, worklet |-> workletNode,
     graphs |-> graphs]

\* the fields after a method has run
CaptureBecomes(c) ==
    /\ mediaStream' = c.stream
    /\ streams' = c.streams
    /\ captureContext' = c.ctx
    /\ workletLoaded' = c.loaded
    /\ sourceNode' = c.source
    /\ workletNode' = c.worklet
    /\ graphs' = c.graphs

\* requestMicrophoneAccess() up to its await: getUserMedia is asked for a stream
GetUserMedia ==
    /\ asked + askedBefore < MaxAsking
    /\ asked' = asked + 1
    /\ UNCHANGED <<mediaStream, streams, captureContext, workletLoaded, sourceNode,
                   workletNode, graphs, onAudioDataCallback, loading, released,
                   delivered, returned, askedBefore, grantedSince>>
    /\ UNCHANGED besidesCapture

\* requestMicrophoneAccess(), when getUserMedia settles: a granted stream
\* replaces this.mediaStream (the stream held before is not stopped); a refusal
\* is caught and changes nothing
RequestMicrophoneAccess(granted) ==
    /\ granted => Len(streams) < MaxStreams
    /\ \/ /\ asked > 0
          /\ asked' = asked - 1
          /\ grantedSince' = (grantedSince \/ granted)
          /\ UNCHANGED askedBefore
       \/ /\ askedBefore > 0
          /\ askedBefore' = askedBefore - 1
          /\ UNCHANGED <<asked, grantedSince>>
    /\ IF granted
         THEN /\ streams' = Append(streams, TRUE)
              /\ mediaStream' = Len(streams) + 1
              /\ released' = FALSE
         ELSE UNCHANGED <<streams, mediaStream, released>>
    /\ returned' = IF granted THEN "true" ELSE "false"
    /\ delivered' = 0
    /\ UNCHANGED <<captureContext, workletLoaded, sourceNode, workletNode, graphs,
                   onAudioDataCallback, loading>>
    /\ UNCHANGED besidesCapture

\* onAudioData(callback)
OnAudioData ==
    /\ ~onAudioDataCallback
    /\ onAudioDataCallback' = TRUE
    /\ UNCHANGED <<mediaStream, streams, captureContext, workletLoaded, sourceNode,
                   workletNode, graphs, loading, released, delivered, returned,
                   requestVars>>
    /\ UNCHANGED besidesCapture

\* a method ends: the fields it leaves and how it ended
Ends(c, how) == [fields |-> c, how |-> how]

\* startCapture() from the creation of the source node on: the worklet path
Worklet(c) ==
    CASE c.ctx = "null" \/ c.stream = 0 -> Ends(c, "TypeError")
      [] c.ctx = "bare" ->
           \* the processor is not registered in this context: the constructor of
           \* AudioWorkletNode throws, the source node is already in this.sourceNode
           Ends([c EXCEPT !.graphs = Append(@, Graph("source")),
                          !.source = Len(c.graphs) + 1], "InvalidStateError")
      [] OTHER ->
           Ends([c EXCEPT !.graphs = Append(@, Graph("worklet")),
                          !.source = Len(c.graphs) + 1,
                          !.worklet = Len(c.graphs) + 1], "started")

\* startCaptureLegacy(): the ScriptProcessorNode is held by no field
Legacy(c) ==
    IF c.ctx = "null" \/ c.stream = 0
      THEN Ends(c, "Audio context or media stream not initialized")
      ELSE Ends([c EXCEPT !.graphs = Append(@, Graph("legacy")),
                          !.source = Len(c.graphs) + 1], "started")

\* startCapture() up to its await, or to its end when the module is loaded
StartCapture ==
    /\ Len(graphs) < MaxGraphs
    /\ IF mediaStream = 0
         THEN /\ returned' = "Microphone access not granted"
              /\ UNCHANGED <<mediaStream, streams, captureContext, workletLoaded,
                             sourceNode, workletNode, graphs, loading, released>>
         ELSE LET c == [CaptureFields EXCEPT
                            !.ctx = IF @ = "null" THEN "bare" ELSE @]
              IN /\ released' = FALSE
                 /\ IF ~workletLoaded
                      THEN /\ loading < MaxLoading
                           /\ loading' = loading + 1
                           /\ CaptureBecomes(c)
                           /\ returned' = "pending"
                      ELSE /\ CaptureBecomes(Worklet(c).fields)
                           /\ returned' = Worklet(c).how
                           /\ UNCHANGED loading
    /\ delivered' = 0
    /\ UNCHANGED <<onAudioDataCallback, requestVars>>
    /\ UNCHANGED besidesCapture

\* audioWorklet.addModule settles and startCapture() runs to its end: the
\* worklet path when the module loaded, the legacy path when it did not
ModuleSettled(ok) ==
    /\ loading > 0
    /\ Len(graphs) < MaxGraphs
    /\ ok => captureContext # "null"
    /\ loading' = loading - 1
    /\ LET end == IF ok
                    THEN Worklet([CaptureFields EXCEPT !.loaded = TRUE,
                                                       !.ctx = "loaded"])
                    ELSE Legacy(CaptureFields)
       IN /\ CaptureBecomes(end.fields)
          /\ returned' = end.how
    /\ UNCHANGED <<onAudioDataCallback, released, delivered, requestVars>>
    /\ UNCHANGED besidesCapture

\* the fields after stopCapture()
CaptureStopped(c) ==
    LET a == IF c.worklet # 0
               THEN [c EXCEPT !.graphs[c.worklet].out = FALSE,
                              !.graphs[c.worklet].port = FALSE, !.worklet = 0]
               ELSE c
        b == IF a.source # 0
               THEN [a EXCEPT !.graphs[a.source].fed = FALSE, !.source = 0]
               ELSE a
    IN IF b.stream # 0
         THEN [b EXCEPT !.streams[b.stream] = FALSE, !.stream = 0]
         ELSE b

\* the calls of requestMicrophoneAccess() still waiting when stopCapture()
\* returns were made before it; stopCapture() does nothing about them
RequestsOutlived ==
    /\ askedBefore' = askedBefore + asked
    /\ asked' = 0
    /\ grantedSince' = FALSE

StopCapture ==
    /\ CaptureBecomes(CaptureStopped(CaptureFields))
    /\ RequestsOutlived
    /\ released' = TRUE
    /\ delivered' = 0
    /\ UNCHANGED <<onAudioDataCallback, loading, returned>>
    /\ UNCHANGED besidesCapture

\* graph g hands frames to the main thread: a worklet while its source feeds
\* it and its port is open; a ScriptProcessorNode for as long as its output is
\* connected, silence when nothing feeds it
Delivers(g) ==
    CASE g.kind = "worklet" -> g.fed /\ g.port
      [] g.kind = "legacy" -> g.out
      [] OTHER -> FALSE

\* port.onmessage of a worklet node, onaudioprocess of a ScriptProcessorNode:
\* one frame reaches the frame callback
DeliverFrame(n) ==
    /\ n <= Len(graphs)
    /\ Delivers(graphs[n])
    /\ onAudioDataCallback
    /\ delivered < MaxDelivered
    /\ delivered' = delivered + 1
    /\ UNCHANGED <<mediaStream, streams, captureContext, workletLoaded, sourceNode,
                   workletNode, graphs, onAudioDataCallback, loading, released,
                   returned, requestVars>>
    /\ UNCHANGED besidesCapture

\* the capture half of cleanup(): stopCapture(), then the capture context is
\* closed, with every node in it, and forgotten
CaptureCleanedUp ==
    /\ CaptureBecomes([CaptureStopped(CaptureFields) EXCEPT !.ctx = "null",
                                                            !.graphs = <<>>])
    /\ RequestsOutlived
    /\ released' = TRUE
    /\ delivered' = 0
    /\ UNCHANGED <<onAudioDataCallback, loading, returned>>

INITIAL_BUFFER_COUNT == 1

\* the values of the buffering threshold the gate is checked for
MaxThreshold == 2

\* detectAudioFormat reads a four-byte signature: a shorter chunk is raw PCM
SignatureBytes == 4

\* the chunks the audio handler hands to playAudio: bytes is data.byteLength,
\* format what detectAudioFormat answers, decoded the duration of the buffer
\* decodeAudioData can give (0 when the bytes are no decodable container,
\* as for raw PCM whose first bytes happen to match a signature)
Chunks ==
    { c \in [bytes : 0..MaxBytes, format : {"raw-pcm", "encoded"},
             decoded : 0..MaxDecoded] :
        /\ c.format = "encoded" => c.bytes >= SignatureBytes
        /\ c.format = "raw-pcm" => c.decoded = 0 }

\* what a new AudioContext may be: the autoplay policy decides
FreshContexts == {"suspended", "running"}

\* a step makes a context only where there is none: fresh is not read otherwise
Makes(fresh) == playbackContext = "null" \/ fresh = "running"

NoStep == [op |-> "init", pushed |-> 0, dropped |-> <<>>, reordered |-> FALSE,
           rejected |-> FALSE, fallback |-> FALSE, stopped |-> 0]

\* the service as constructed with a buffering threshold of count
PlaybackWith(count) ==
    /\ initialBufferCount = count
    /\ queuedSinceReset = 0
    /\ clock = 0
    /\ audioQueue = <<>>
    /\ isPlaying = FALSE
    /\ nextPlaybackTime = 0
    /\ scheduledSources = <<>>
    /\ hasStartedPlayback = FALSE
    /\ staleEnded = 0
    /\ run = <<>>
    /\ playbackContext = "null"
    /\ pending = <<>>
    /\ pev = NoStep

PlaybackInit == PlaybackWith(INITIAL_BUFFER_COUNT)

\* the fields the playback methods read and write, as one record
Fields ==
    [ctx |-> playbackContext, clock |-> clock, queue |-> audioQueue,
     playing |-> isPlaying, cursor |-> nextPlaybackTime,
     sources |-> scheduledSources, started |-> hasStartedPlayback,
     stale |-> staleEnded, run |-> run, threshold |-> initialBufferCount,
     queued |-> queuedSinceReset]

\* the fields after a method has run
Becomes(s) ==
    /\ playbackContext' = s.ctx
    /\ clock' = s.clock
    /\ audioQueue' = s.queue
    /\ isPlaying' = s.playing
    /\ nextPlaybackTime' = s.cursor
    /\ scheduledSources' = s.sources
    /\ hasStartedPlayback' = s.started
    /\ staleEnded' = s.stale
    /\ run' = s.run
    /\ initialBufferCount' = s.threshold
    /\ queuedSinceReset' = s.queued

\* (mutant) the cursor is not advanced past the buffer
AdvanceCursorStuck(cursor, dur) == cursor

\* this.nextPlaybackTime += audioBuffer.duration
AdvanceCursor(cursor, dur) == cursor + dur

\* the cursor a buffer is scheduled at: the clock when the cursor is behind it
StartAt(cursor, now) == IF cursor < now THEN now ELSE cursor

\* (mutant) every queued buffer is taken twice
RECURSIVE DrainTwice(_, _, _, _, _)
DrainTwice(queue, cursor, sources, gapless, now) ==
    IF queue = <<>>
      THEN [cursor |-> cursor, sources |-> sources, gapless |-> gapless]
      ELSE LET dur == Head(queue)
               at == StartAt(cursor, now)
               src == [start |-> at, dur |-> dur]
               again == [start |-> at + dur, dur |-> dur]
           IN DrainTwice(Tail(queue), at + dur + dur, sources \o <<src, again>>,
                         (IF cursor < now THEN <<>> ELSE gapless) \o <<src, again>>,
                         now)

\* the while loop of playNextInQueue: every queued buffer becomes a source that
\* starts at the cursor, and the cursor moves past it
RECURSIVE Drain(_, _, _, _, _)
Drain(queue, cursor, sources, gapless, now) ==
    IF queue = <<>>
      THEN [cursor |-> cursor, sources |-> sources, gapless |-> gapless]
      ELSE LET dur == Head(queue)
               at == StartAt(cursor, now)
               src == [start |-> at, dur |-> dur]
           IN Drain(Tail(queue), AdvanceCursor(at, dur), Append(sources, src),
                    IF cursor < now THEN <<src>> ELSE Append(gapless, src), now)

\* pcm16ToAudioBuffer: an Int16Array over the bytes, one sample per two bytes;
\* a buffer of odd length has no Int16Array view and the conversion throws
Convertible(bytes) == bytes % 2 = 0

PcmDuration(bytes) == bytes \div 2

\* new AudioContext() where this.playbackContext is null; its clock starts at 0
EnsureContext(s, fresh) ==
    IF s.ctx = "null" THEN [s EXCEPT !.ctx = fresh, !.clock = 0] ELSE s

\* playNextInQueue(): nothing without a context, else the queue is drained
PlayNextInQueue(s) ==
    IF s.ctx = "null" \/ s.queue = <<>>
      THEN s
      ELSE LET d == Drain(s.queue, s.cursor, s.sources, s.run, s.clock)
           IN [s EXCEPT !.queue = <<>>, !.cursor = d.cursor, !.sources = d.sources,
                        !.run = d.gapless, !.playing = TRUE]

\* this.audioQueue.push(audioBuffer)
Pushed(s, dur) ==
    [s EXCEPT !.queue = Append(@, dur), !.queued = Min(@ + 1, MaxThreshold)]

\* the primary path of playAudioChunk once it holds a buffer: push, wait while
\* initial buffering is short, else schedule
Enqueue(s, dur) ==
    LET q == Pushed(s, dur)
    IN IF ~q.started /\ Len(q.queue) < q.threshold
         THEN q
         ELSE PlayNextInQueue([q EXCEPT !.started = (@ \/ ~q.playing)])

\* the final fallback once it holds a buffer: push, schedule only when idle
EnqueueFallback(s, dur) ==
    LET q == Pushed(s, dur)
    IN IF ~q.playing THEN PlayNextInQueue(q) ELSE q

\* pcm16ToAudioBuffer(data): makes the context if there is none, then converts
Pcm16ToAudioBuffer(s, bytes, fresh) ==
    [s |-> EnsureContext(s, fresh), ok |-> Convertible(bytes),
     dur |-> PcmDuration(bytes)]

\* (mutant) an error of the final fallback leaves playAudioChunk
FallbackErrorEscapes == FALSE

\* the catch around the final fallback
CatchesFallbackError == TRUE

\* the catch block of playAudioChunk: one more raw-PCM conversion
Fallback(s, c, fresh) ==
    LET b == Pcm16ToAudioBuffer(s, c.bytes, fresh)
    IN IF b.ok
         THEN [s |-> EnqueueFallback(b.s, b.dur), pushed |-> 1, thrown |-> FALSE,
               fellBack |-> TRUE]
         ELSE [s |-> b.s, pushed |-> 0, thrown |-> ~CatchesFallbackError,
               fellBack |-> TRUE]

\* the try block of playAudioChunk after detectAudioFormat; for an encoded
\* chunk decodeOk tells how decodeAudioData settled.  The raw-PCM branch reads
\* this.playbackContext.sampleRate first, which throws when cleanup() has
\* nulled the context meanwhile.
Primary(s, c, fresh, decodeOk) ==
    IF c.format = "encoded" /\ decodeOk
      THEN [s |-> Enqueue(s, c.decoded), pushed |-> 1, thrown |-> FALSE,
            fellBack |-> FALSE]
      ELSE IF c.format = "raw-pcm" /\ s.ctx = "null"
        THEN [s |-> s, pushed |-> 0, thrown |-> TRUE, fellBack |-> FALSE]
        ELSE LET b == Pcm16ToAudioBuffer(s, c.bytes, fresh)
             IN IF b.ok
                  THEN [s |-> Enqueue(b.s, b.dur), pushed |-> 1, thrown |-> FALSE,
                        fellBack |-> FALSE]
                  ELSE [s |-> b.s, pushed |-> 0, thrown |-> TRUE,
                        fellBack |-> FALSE]

\* playAudioChunk from detectAudioFormat to its end
Process(s, c, fresh, decodeOk) ==
    LET p == Primary(s, c, fresh, decodeOk)
    IN IF p.thrown THEN Fallback(p.s, c, fresh) ELSE p

\* a call of playAudioChunk waiting on a promise
Call(c, stage) ==
    [bytes |-> c.bytes, format |-> c.format, decoded |-> c.decoded,
     stage |-> stage, overtaken |-> FALSE]

\* a later chunk was pushed while these calls were still waiting
MarkOvertaken(calls) ==
    [n \in DOMAIN calls |-> [calls[n] EXCEPT !.overtaken = TRUE]]

Logged(log, c, r) ==
    [log EXCEPT !.pushed = @ + r.pushed,
                !.dropped = IF r.pushed = 0 THEN Append(@, c.bytes) ELSE @,
                !.reordered = @ \/ (r.pushed > 0 /\ c.overtaken),
                !.rejected = @ \/ r.thrown,
                !.fallback = @ \/ (r.fellBack /\ r.pushed > 0)]

\* sources and queued buffers the model lets exist at once
Room == Len(scheduledSources) + staleEnded + Len(audioQueue) + Len(pending) < MaxInFlight

\* playAudioChunk(data) up to its first await that yields to other events:
\* an empty chunk is skipped; a suspended context is resumed and the call
\* waits; an encoded chunk waits for decodeAudioData; raw PCM on a running
\* context is converted and scheduled before any other event is handled
PlayAudioChunk(c, fresh) ==
    /\ Room
    /\ Makes(fresh)
    /\ IF c.bytes = 0
         THEN /\ pev' = [NoStep EXCEPT !.op = "play"]
              /\ UNCHANGED <<clock, audioQueue, isPlaying, nextPlaybackTime,
                             scheduledSources, hasStartedPlayback, staleEnded, run,
                             playbackContext, pending, initialBufferCount,
                             queuedSinceReset>>
         ELSE LET s == EnsureContext(Fields, fresh)
              IN IF s.ctx = "suspended"
                   THEN /\ Len(pending) < MaxPending
                        /\ Becomes(s)
                        /\ pending' = Append(pending, Call(c, "resuming"))
                        /\ pev' = [NoStep EXCEPT !.op = "play"]
                   ELSE IF c.format = "encoded"
                     THEN /\ Len(pending) < MaxPending
                          /\ Becomes(s)
                          /\ pending' = Append(pending, Call(c, "decoding"))
                          /\ pev' = [NoStep EXCEPT !.op = "play"]
                     ELSE LET r == Process(s, c, fresh, FALSE)
                          IN /\ Becomes(r.s)
                             /\ pending' = IF r.pushed > 0 THEN MarkOvertaken(pending)
                                           ELSE pending
                             /\ pev' = Logged([NoStep EXCEPT !.op = "play"],
                                              Call(c, "none"), r)
    /\ UNCHANGED besidesPlayback

\* the calls waiting on resume() go on, in the order they were made: an
\* encoded chunk starts decodeAudioData and waits again (with no context the
\* call throws and the chunk is converted as raw PCM), raw PCM is converted
RECURSIVE Release(_, _, _, _, _)
Release(s, rest, kept, log, fresh) ==
    IF rest = <<>>
      THEN [s |-> s, pending |-> kept, log |-> log]
      ELSE LET c == Head(rest)
           IN IF c.stage = "decoding"
                THEN Release(s, Tail(rest), Append(kept, c), log, fresh)
                ELSE IF c.format = "encoded" /\ s.ctx # "null"
                  THEN Release(s, Tail(rest),
                               Append(kept, [c EXCEPT !.stage = "decoding"]),
                               log, fresh)
                  ELSE LET r == Process(s, c, fresh, FALSE)
                       IN Release(r.s, Tail(rest),
                                  IF r.pushed > 0 THEN MarkOvertaken(kept) ELSE kept,
                                  Logged(log, c, r), fresh)

\* the promises of playbackContext.resume() settle; a rejection is logged
\* and the calls go on all the same
ResumeSettled(ok, fresh) ==
    /\ \E n \in 1..Len(pending) : pending[n].stage = "resuming"
    /\ Makes(fresh)
    /\ ok \/ playbackContext = "suspended"
    /\ LET s == IF ok /\ playbackContext = "suspended"
                  THEN [Fields EXCEPT !.ctx = "running"] ELSE Fields
           r == Release(s, pending, <<>>, [NoStep EXCEPT !.op = "resume"], fresh)
       IN /\ Becomes(r.s)
          /\ pending' = r.pending
          /\ pev' = r.log
    /\ UNCHANGED besidesPlayback

\* the promise of decodeAudioData settles for the n-th waiting call
DecodeSettled(n, ok, fresh) ==
    /\ n \in 1..Len(pending)
    /\ pending[n].stage = "decoding"
    /\ Makes(fresh)
    /\ ok => pending[n].decoded > 0
    /\ LET c == pending[n]
           r == Process(Fields, c, fresh, ok)
           older == SubSeq(pending, 1, n - 1)
           newer == SubSeq(pending, n + 1, Len(pending))
       IN /\ Becomes(r.s)
          /\ pending' = (IF r.pushed > 0 THEN MarkOvertaken(older) ELSE older) \o newer
          /\ pev' = Logged([NoStep EXCEPT !.op = "decode"], c, r)
    /\ UNCHANGED besidesPlayback

\* (mutant) the end of a source never marks playback idle
IdleNever(sources, queue) == FALSE

\* (mutant) the cursor is reset whenever a source ends with the queue empty
IdleAfterAnyEnd(sources, queue) == queue = <<>>

\* the test of source.onended: nothing scheduled and nothing queued
Idle(sources, queue) == sources = <<>> /\ queue = <<>>

Without(seq, n) == [m \in 1..(Len(seq) - 1) |-> IF m < n THEN seq[m] ELSE seq[m + 1]]

\* source.onended of the n-th source in flight, once it has played to its end
OnEnded(n) ==
    /\ n \in 1..Len(scheduledSources)
    /\ playbackContext = "running"
    /\ clock >= scheduledSources[n].start + scheduledSources[n].dur
    /\ LET left == Without(scheduledSources, n)
       IN /\ scheduledSources' = left
          /\ IF Idle(left, audioQueue)
               THEN isPlaying' = FALSE /\ nextPlaybackTime' = 0 /\ run' = <<>>
               ELSE UNCHANGED <<isPlaying, nextPlaybackTime, run>>
    /\ pev' = [NoStep EXCEPT !.op = "ended"]
    /\ UNCHANGED <<clock, audioQueue, hasStartedPlayback, staleEnded,
                   playbackContext, pending, initialBufferCount, queuedSinceReset>>
    /\ UNCHANGED besidesPlayback

\* source.onended of a source stopPlayback() stopped: it is no longer in
\* scheduledSources (indexOf gives -1), the idle test runs all the same
StaleEnded ==
    /\ staleEnded > 0
    /\ staleEnded' = staleEnded - 1
    /\ IF Idle(scheduledSources, audioQueue)
         THEN isPlaying' = FALSE /\ nextPlaybackTime' = 0 /\ run' = <<>>
         ELSE UNCHANGED <<isPlaying, nextPlaybackTime, run>>
    /\ pev' = [NoStep EXCEPT !.op = "stale"]
    /\ UNCHANGED <<clock, audioQueue, scheduledSources, hasStartedPlayback,
                   playbackContext, pending, initialBufferCount, queuedSinceReset>>
    /\ UNCHANGED besidesPlayback

\* (mutant) stopPlayback() forgets the initial-buffering flag
StoppedKeepsStarted(s) ==
    [s EXCEPT !.stale = @ + Len(s.sources), !.sources = <<>>, !.queue = <<>>,
              !.playing = FALSE, !.cursor = 0, !.run = <<>>, !.queued = 0]

\* the fields after stopPlayback(): every source in flight is stopped and
\* dropped (a throw of stop() is caught), the queue is cleared and the
\* timeline reset; the AudioContext stays
Stopped(s) ==
    [s EXCEPT !.stale = @ + Len(s.sources), !.sources = <<>>, !.queue = <<>>,
              !.playing = FALSE, !.cursor = 0, !.started = FALSE, !.run = <<>>,
              !.queued = 0]

StopPlayback ==
    /\ Becomes(Stopped(Fields))
    /\ pev' = [NoStep EXCEPT !.op = "stop", !.stopped = Len(scheduledSources)]
    /\ UNCHANGED pending
    /\ UNCHANGED besidesPlayback

\* cleanup(): stopCapture(), stopPlayback(), then both contexts are closed and
\* forgotten
Cleanup ==
    /\ CaptureCleanedUp
    /\ Becomes([Stopped(Fields) EXCEPT !.ctx = "null"])
    /\ pev' = [NoStep EXCEPT !.op = "cleanup"]
    /\ UNCHANGED pending
    /\ UNCHANGED besidesAudio

CaptureNext ==
    \/ GetUserMedia
    \/ \E granted \in BOOLEAN : RequestMicrophoneAccess(granted)
    \/ OnAudioData
    \/ StartCapture
    \/ \E ok \in BOOLEAN : ModuleSettled(ok)
    \/ StopCapture
    \/ \E n \in 1..MaxGraphs : DeliverFrame(n)
    \/ Cleanup

\* the playback clock advances while the context runs
Tick ==
    /\ playbackContext = "running"
    /\ clock < MaxClock
    /\ clock' = clock + 1
    /\ pev' = [NoStep EXCEPT !.op = "tick"]
    /\ UNCHANGED <<audioQueue, isPlaying, nextPlaybackTime, scheduledSources,
                   hasStartedPlayback, staleEnded, run, playbackContext, pending,
                   initialBufferCount, queuedSinceReset>>
    /\ UNCHANGED besidesPlayback

PlaybackNext ==
    \/ \E c \in Chunks, fresh \in FreshContexts : PlayAudioChunk(c, fresh)
    \/ \E ok \in BOOLEAN, fresh \in FreshContexts : ResumeSettled(ok, fresh)
    \/ \E n \in 1..MaxPending, ok \in BOOLEAN, fresh \in FreshContexts :
           DecodeSettled(n, ok, fresh)
    \/ \E n \in 1..MaxInFlight : OnEnded(n)
    \/ StaleEnded
    \/ StopPlayback
    \/ Cleanup
    \/ Tick

(***************************************************************************)
(* The conversation store.                                                 *)
(***************************************************************************)
Roles == {"ai", "patient"}

Chars == {"a", " "}

RECURSIVE Texts(_)
Texts(n) ==
    IF n = 0 THEN {<<>>}
    ELSE Texts(n - 1) \cup {Append(t, ch) : t \in Texts(n - 1), ch \in Chars}

\* String.prototype.trim
RECURSIVE TrimStart(_)
TrimStart(t) == IF t # <<>> /\ Head(t) = " " THEN TrimStart(Tail(t)) ELSE t

RECURSIVE TrimEnd(_)
TrimEnd(t) ==
    IF t # <<>> /\ t[Len(t)] = " " THEN TrimEnd(SubSeq(t, 1, Len(t) - 1)) ELSE t

Trim(t) == TrimEnd(TrimStart(t))

Msg(role, content) == [role |-> role, content |-> content]

NoCall == [op |-> "init", role |-> "null", chunk |-> <<>>, emitted |-> 0]

\* the lists setMessages is given
Transcripts == {<<>>, <<Msg("patient", <<"a", " ">>)>>}

TranscriptInit ==
    /\ messages = <<>>
    /\ currentAIChunk = <<>>
    /\ currentPatientChunk = <<>>
    /\ lastRole = "null"
    /\ tev = NoCall
    /\ runRole = "null"
    /\ runText = <<>>
    /\ expected = <<>>

\* a run of chunks ends: it makes one message when it holds text
Closed(list, role, text) ==
    IF role # "null" /\ Trim(text) # <<>>
      THEN Append(list, Msg(role, Trim(text)))
      ELSE list

\* the run goes on with a chunk of its role; a chunk of the other role ends it
\* and starts the next
RunAppended(role, chunk) ==
    /\ runRole' = role
    /\ IF runRole = role
         THEN runText' = runText \o chunk /\ UNCHANGED expected
         ELSE /\ runText' = chunk
              /\ expected' = Closed(expected, runRole, runText)
              /\ Len(expected') <= MaxMessages

RunEnded ==
    /\ runRole' = "null"
    /\ runText' = <<>>
    /\ expected' = Closed(expected, runRole, runText)
    /\ Len(expected') <= MaxMessages

\* (mutant) the content is read from the AI accumulator whatever the role
ChunkOfAi(role, ai, patient) == ai

\* state.lastRole === 'ai' ? state.currentAIChunk : state.currentPatientChunk
ChunkOf(role, ai, patient) == IF role = "ai" THEN ai ELSE patient

\* (mutant) the new role's accumulator keeps what it held
StartAccumulatorKeeps(held, chunk) == held \o chunk

\* role === 'ai' ? chunk : ''  (for the role of the call)
StartAccumulator(held, chunk) == chunk

\* (mutant) a chunk replaces what was accumulated
AccumulateReplaces(held, chunk) == chunk

\* state.currentAIChunk + chunk
Accumulate(held, chunk) == held \o chunk

\* addMessage(role, content)
AddMessage(role, content) ==
    /\ Len(messages) < MaxMessages
    /\ messages' = Append(messages, Msg(role, content))
    /\ tev' = [op |-> "add", role |-> role, chunk |-> content, emitted |-> 1]
    /\ expected' = Append(expected, Msg(role, content))
    /\ UNCHANGED <<runRole, runText>>
    /\ UNCHANGED <<currentAIChunk, currentPatientChunk, lastRole>>
    /\ UNCHANGED besidesTranscript

\* appendTranscriptChunk(role, chunk)
AppendTranscriptChunk(role, chunk) ==
    /\ LET previousContent == ChunkOf(lastRole, currentAIChunk, currentPatientChunk)
       IN IF lastRole # "null" /\ lastRole # role /\ Trim(previousContent) # <<>>
            THEN /\ Len(messages) < MaxMessages
                 /\ messages' = Append(messages, Msg(lastRole, Trim(previousContent)))
                 /\ currentAIChunk' =
                        IF role = "ai" THEN StartAccumulator(currentAIChunk, chunk)
                        ELSE <<>>
                 /\ currentPatientChunk' =
                        IF role = "patient"
                          THEN StartAccumulator(currentPatientChunk, chunk)
                        ELSE <<>>
                 /\ lastRole' = role
            ELSE /\ Len(ChunkOf(role, currentAIChunk, currentPatientChunk))
                        + Len(chunk) <= MaxAccum
                 /\ IF role = "ai"
                      THEN /\ currentAIChunk' = Accumulate(currentAIChunk, chunk)
                           /\ UNCHANGED currentPatientChunk
                      ELSE /\ currentPatientChunk' = Accumulate(currentPatientChunk, chunk)
                           /\ UNCHANGED currentAIChunk
                 /\ lastRole' = role
                 /\ UNCHANGED messages
    /\ tev' = [op |-> "append", role |-> role, chunk |-> chunk,
               emitted |-> Len(messages') - Len(messages)]
    /\ RunAppended(role, chunk)
    /\ UNCHANGED besidesTranscript

\* finalizeCurrentMessage()
FinalizeCurrentMessage ==
    /\ LET content == ChunkOf(lastRole, currentAIChunk, currentPatientChunk)
       IN IF Trim(content) = <<>> \/ lastRole = "null"
            THEN UNCHANGED <<messages, currentAIChunk, currentPatientChunk, lastRole>>
            ELSE /\ Len(messages) < MaxMessages
                 /\ messages' = Append(messages, Msg(lastRole, Trim(content)))
                 /\ currentAIChunk' = <<>>
                 /\ currentPatientChunk' = <<>>
                 /\ lastRole' = "null"
    /\ tev' = [NoCall EXCEPT !.op = "finalize",
                             !.emitted = Len(messages') - Len(messages)]
    /\ RunEnded
    /\ UNCHANGED besidesTranscript

\* setMessages(messages)
SetMessages(list) ==
    /\ tev' = [NoCall EXCEPT !.op = "set"]
    /\ messages' = list
    /\ expected' = list
    /\ runRole' = "null"
    /\ runText' = <<>>
    /\ currentAIChunk' = <<>>
    /\ currentPatientChunk' = <<>>
    /\ lastRole' = "null"
    /\ UNCHANGED besidesTranscript

\* clearConversation()
ClearConversation ==
    /\ tev' = [NoCall EXCEPT !.op = "clear"]
    /\ messages' = <<>>
    /\ expected' = <<>>
    /\ runRole' = "null"
    /\ runText' = <<>>
    /\ currentAIChunk' = <<>>
    /\ currentPatientChunk' = <<>>
    /\ lastRole' = "null"
    /\ UNCHANGED besidesTranscript

TranscriptNext ==
    \/ \E role \in Roles, content \in Texts(1) : AddMessage(role, content)
    \/ \E role \in Roles, chunk \in Texts(MaxChunk) : AppendTranscriptChunk(role, chunk)
    \/ FinalizeCurrentMessage
    \/ \E list \in Transcripts : SetMessages(list)
    \/ ClearConversation

(***************************************************************************)
(* Sample arithmetic.  A float sample is the fraction n / Scale, which a   *)
(* 32-bit float holds exactly for the n used here; the products below are  *)
(* exact in the doubles the program computes with.                         *)
(***************************************************************************)
\* two points of the grid to one step of the 16-bit scale
Scale == 2 * 32768

\* what the model feeds the capture paths: a sample below -1 and one just below 1
Samples == {-70000, 65535}

\* what convertToPCM16 is given: the extremes, their neighbours, values beyond
PcmSamples == {-70000, -65536, -65535, -32769, -3, -1, 0, 1, 3, 32768, 65534,
               65535, 65536, 70000}

\* the integer part of num / Scale: a number stored in an Int16Array element
\* loses its fraction, towards zero
Truncated(num) == IF num >= 0 THEN num \div Scale ELSE (num + Scale - 1) \div Scale

\* and keeps its low 16 bits, read as a signed integer
ToInt16(x) == ((x + 32768) % 65536) - 32768

\* the two bytes of an Int16Array element, low byte first, and back
Int16Bytes(x) == <<(x % 65536) % 256, (x % 65536) \div 256>>
Int16At(bytes, i) == ToInt16(bytes[2 * i - 1] + 256 * bytes[2 * i])

\* the conversion with both signs scaled by 0x7FFF
ScaledBy7FFF(x) ==
    LET s == Max(-Scale, Min(Scale, x))
    IN ToInt16(Truncated(s * 32767))

\* convertToPCM16, one element: clamp to [-1, 1], scale by 0x8000 or 0x7FFF
ConvertSample(x) ==
    LET s == Max(-Scale, Min(Scale, x))
    IN ToInt16(Truncated(IF s < 0 THEN s * 32768 ELSE s * 32767))

convertToPCM16(arr) == [i \in 1..Len(arr) |-> ConvertSample(arr[i])]

\* the same conversion as AudioCaptureProcessor.process writes it out
WorkletSample(x) ==
    LET s == Max(-Scale, Min(Scale, x))
    IN ToInt16(Truncated(IF s < 0 THEN s * 32768 ELSE s * 32767))

\* pcm16.buffer: the bytes of an Int16Array
RECURSIVE BufferOf(_)
BufferOf(pcm16) ==
    IF pcm16 = <<>> THEN <<>> ELSE Int16Bytes(Head(pcm16)) \o BufferOf(Tail(pcm16))

\* the channel data pcm16ToAudioBuffer writes: new Int16Array(data), each
\* element divided by 0x8000
ChannelData(bytes) ==
    [i \in 1..(Len(bytes) \div 2) |-> (Int16At(bytes, i) * Scale) \div 32768]

(***************************************************************************)
(* Capture framing.                                                        *)
(***************************************************************************)
FramingInit ==
    /\ input = <<>>
    /\ buffer = <<>>
    /\ port = <<>>
    /\ workletFrames = <<>>
    /\ scriptBuffer = <<>>
    /\ events = <<>>
    /\ legacyFrames = <<>>
    /\ missed = FALSE

\* blocks of samples one process() call may be given
RECURSIVE SeqsUpTo(_, _)
SeqsUpTo(S, n) ==
    IF n = 0 THEN {<<>>}
    ELSE LET shorter == SeqsUpTo(S, n - 1)
         IN shorter \cup {Append(q, x) : q \in {r \in shorter : Len(r) = n - 1}, x \in S}

Blocks == SeqsUpTo(Samples, MaxBlock)

\* the buffer is emitted one sample late
Overfull(filled) == Len(filled) > bufferSize

\* if (this.bufferIndex >= this.bufferSize)
Full(filled) == Len(filled) >= bufferSize

\* the Int16Array the processor posts for a full buffer
PostedFrame(filled) == [j \in 1..bufferSize |-> WorkletSample(filled[j])]

\* the sample loop of process() from inputChannel[i] on: state is the buffer
\* and the frames posted so far
RECURSIVE Buffered(_, _, _)
Buffered(state, inputChannel, i) ==
    IF i > Len(inputChannel) THEN state
    ELSE LET filled == Append(state.buffer, inputChannel[i])
         IN IF Full(filled)
              THEN Buffered([buffer |-> <<>>,
                             posted |-> Append(state.posted, PostedFrame(filled))],
                            inputChannel, i + 1)
              ELSE Buffered([state EXCEPT !.buffer = filled], inputChannel, i + 1)

\* a ScriptProcessorNode made with createScriptProcessor(4096, 1, 1) given
\* more samples: one audioprocess event per whole buffer, the rest is kept
ScriptProcessor(held, more) ==
    LET all == held \o more
        whole == Len(all) \div bufferSize
    IN [events |-> [k \in 1..whole |->
                      SubSeq(all, (k - 1) * bufferSize + 1, k * bufferSize)],
        held |-> SubSeq(all, whole * bufferSize + 1, Len(all))]

\* the audio thread renders one block: process(inputs) in the worklet path,
\* and the same samples reach the ScriptProcessorNode of the legacy path
ProcessBlock(inputChannel) ==
    LET w == Buffered([buffer |-> buffer, posted |-> <<>>], inputChannel, 1)
        l == ScriptProcessor(scriptBuffer, inputChannel)
    IN /\ Len(input) + Len(inputChannel) <= MaxInput
       /\ Len(port) + Len(w.posted) <= MaxPosted
       /\ Len(events) + Len(l.events) <= MaxPosted
       /\ input' = input \o inputChannel
       /\ buffer' = w.buffer
       /\ port' = port \o w.posted
       /\ scriptBuffer' = l.held
       /\ events' = events \o l.events
       /\ UNCHANGED <<workletFrames, legacyFrames, missed>>
       /\ UNCHANGED <<captureVars, besidesFraming>>

\* workletNode.port.onmessage
PortMessage ==
    /\ port # <<>>
    /\ port' = Tail(port)
    /\ workletFrames' = IF onAudioDataCallback
                          THEN Append(workletFrames, Head(port))
                          ELSE workletFrames
    /\ missed' = (missed \/ ~onAudioDataCallback)
    /\ UNCHANGED <<input, buffer, scriptBuffer, events, legacyFrames>>
    /\ UNCHANGED <<captureVars, besidesFraming>>

\* processorNode.onaudioprocess
AudioProcess ==
    /\ events # <<>>
    /\ events' = Tail(events)
    /\ legacyFrames' = IF onAudioDataCallback
                         THEN Append(legacyFrames, convertToPCM16(Head(events)))
                         ELSE legacyFrames
    /\ missed' = (missed \/ ~onAudioDataCallback)
    /\ UNCHANGED <<input, buffer, port, workletFrames, scriptBuffer>>
    /\ UNCHANGED <<captureVars, besidesFraming>>

FramingNext ==
    \/ OnAudioData
    \/ \E inputChannel \in Blocks : ProcessBlock(inputChannel)
    \/ PortMessage
    \/ AudioProcess

(***************************************************************************)
(* Sample conversion and format detection.                                 *)
(***************************************************************************)
\* before any call: the array convertToPCM16 will be given and the buffer
\* detectAudioFormat will be given
CodecGiven(arr, buf) ==
    /\ float32Array = arr
    /\ pcmData = <<>>
    /\ channelData = <<>>
    /\ formatData = buf
    /\ format = "none"

CodecInit == CodecGiven(<<>>, <<>>)

\* the arrays convertToPCM16 is given
PcmArrays == SeqsUpTo(PcmSamples, MaxFloats) \ {<<>>}

\* the file signatures detectAudioFormat knows, each in a buffer of four bytes:
\* RIFF, OggS, fLaC, Matroska, two MP3 frame headers, ID3
Signatures == {<<82, 73, 70, 70>>, <<79, 103, 103, 83>>, <<102, 76, 97, 67>>,
               <<26, 69, 223, 163>>, <<255, 251, 144, 0>>, <<255, 224, 0, 0>>,
               <<73, 68, 51, 4>>}

\* bytes a signature is spoilt with
OtherBytes == {0, 70, 223, 255}

\* four-byte buffers: the signatures, and each with one byte replaced
FourBytes ==
    Signatures \cup {[sig EXCEPT ![k] = b] :
                        sig \in Signatures, k \in 1..4, b \in OtherBytes}
               \cup {<<0, 0, 0, 0>>}

\* the buffers detectAudioFormat is given: those, cut short, and followed by
\* more bytes
DetectInputs ==
    {SubSeq(q, 1, n) : q \in FourBytes, n \in 0..4}
        \cup {q \o [i \in 1..n |-> 0] : q \in FourBytes, n \in 1..(MaxData - 4)}

\* convertToPCM16(float32Array), and the buffer of its result
ConvertToPCM16 ==
    /\ float32Array # <<>>
    /\ pcmData = <<>>
    /\ pcmData' = BufferOf(convertToPCM16(float32Array))
    /\ UNCHANGED <<float32Array, channelData, formatData, format>>
    /\ UNCHANGED besidesCodec

\* pcm16ToAudioBuffer(pcmData, sampleRate), which makes the playback context
\* if there is none
ToAudioBuffer(fresh) ==
    /\ pcmData # <<>>
    /\ channelData = <<>>
    /\ Makes(fresh)
    /\ Becomes(Pcm16ToAudioBuffer(Fields, Len(pcmData), fresh).s)
    /\ channelData' = IF Pcm16ToAudioBuffer(Fields, Len(pcmData), fresh).ok
                        THEN ChannelData(pcmData)
                        ELSE <<>>
    /\ UNCHANGED <<pending, pev>>
    /\ UNCHANGED <<float32Array, pcmData, formatData, format>>
    /\ UNCHANGED <<transportVars, transcriptVars, captureVars, framingVars,
                   standaloneVars>>

PcmNext ==
    \/ ConvertToPCM16
    \/ \E fresh \in FreshContexts : ToAudioBuffer(fresh)

\* magic[1] & 0xE0
And0xE0(byte) == (byte \div 32) * 32

\* the MP3 test accepts any second byte
AnySecondByte(magic) == magic[1] = 255

\* the MP3 frame sync: 0xFF, then a byte whose three high bits are set
Mp3Sync(magic) == magic[1] = 255 /\ And0xE0(magic[2]) = 224

\* detectAudioFormat(data)
detectAudioFormat(buf) ==
    IF Len(buf) < 4 THEN "raw-pcm"
    ELSE LET magic == SubSeq(buf, 1, 4)
         IN IF magic[1] = 82 /\ magic[2] = 73 /\ magic[3] = 70 /\ magic[4] = 70
              THEN "encoded"
            ELSE IF Mp3Sync(magic) \/ (magic[1] = 73 /\ magic[2] = 68 /\ magic[3] = 51)
              THEN "encoded"
            ELSE IF magic[1] = 79 /\ magic[2] = 103 /\ magic[3] = 103 /\ magic[4] = 83
              THEN "encoded"
            ELSE IF magic[1] = 26 /\ magic[2] = 69 /\ magic[3] = 223 /\ magic[4] = 163
              THEN "encoded"
            ELSE IF magic[1] = 102 /\ magic[2] = 76 /\ magic[3] = 97 /\ magic[4] = 67
              THEN "encoded"
            ELSE "raw-pcm"

DetectAudioFormat ==
    /\ format = "none"
    /\ format' = detectAudioFormat(formatData)
    /\ UNCHANGED <<float32Array, pcmData, channelData, formatData>>
    /\ UNCHANGED besidesCodec

DetectNext == DetectAudioFormat

(***************************************************************************)
(* checkBackendHealth.                                                     *)
(***************************************************************************)
InitialDelays == {0, 8, 16}

MaxDelays == {8, 20}

\* the options a call is given: at least one probe
OptionSets ==
    [maxRetries : 1..MaxProbes, initialDelay : InitialDelays, maxDelay : MaxDelays,
     onRetry : BOOLEAN, onColdStart : BOOLEAN]

NoOptions ==
    [maxRetries |-> 1, initialDelay |-> 0, maxDelay |-> 8, onRetry |-> FALSE,
     onColdStart |-> FALSE]

NotCalled ==
    [phase |-> "idle", attempts |-> 0, delay |-> 0, wasColdStart |-> FALSE,
     isHealthy |-> FALSE]

HealthInit ==
    /\ options = NoOptions
    /\ check = NotCalled
    /\ failures = 0
    /\ retries = <<>>
    /\ waits = <<>>

\* how a probe ends: the response is ok and its status 'healthy'; the response
\* is not ok or its status is another; fetch or response.json() throws
Outcomes == {"healthy", "unhealthy", "error"}

\* delay * 1.5
TimesOneAndHalf(d) == (3 * d) \div 2

\* (mutant) the backoff has no cap
NextDelayUncapped(d, maxDelay) == TimesOneAndHalf(d)

\* Math.min(delay * 1.5, maxDelay)
NextDelay(d, maxDelay) == Min(TimesOneAndHalf(d), maxDelay)

\* checkBackendHealth(options) up to its first fetch; with maxRetries below 1
\* the loop is skipped and the call returns isHealthy false at once
CheckBackendHealth(o) ==
    /\ check.phase \in {"idle", "returned"}
    /\ options' = o
    /\ check' = IF 0 < o.maxRetries
                  THEN [NotCalled EXCEPT !.phase = "fetching", !.attempts = 1,
                                         !.delay = o.initialDelay]
                  ELSE [NotCalled EXCEPT !.phase = "returned",
                                         !.delay = o.initialDelay]
    /\ failures' = 0
    /\ retries' = <<>>
    /\ waits' = <<>>
    /\ UNCHANGED besidesHealth

\* the fetch of the current attempt settles (i is attempts - 1); slow tells
\* whether it took more than 5 s.  A healthy answer returns; any other end
\* goes on to onRetry and sleep(delay), or out of the loop after the last
\* attempt
ProbeSettled(outcome, slow) ==
    /\ check.phase = "fetching"
    /\ IF outcome = "healthy"
         THEN /\ check' = [check EXCEPT
                               !.phase = "returned", !.isHealthy = TRUE,
                               !.wasColdStart = (check.attempts = 1 /\ slow)]
              /\ UNCHANGED <<failures, retries, waits>>
         ELSE LET cold == outcome = "error" /\ check.attempts = 1
                              /\ options.onColdStart
              IN /\ failures' = failures + 1
                 /\ IF check.attempts - 1 < options.maxRetries - 1
                      THEN /\ retries' = IF options.onRetry
                                           THEN Append(retries, check.delay)
                                           ELSE retries
                           /\ waits' = Append(waits, check.delay)
                           /\ check' = [check EXCEPT !.phase = "sleeping",
                                                     !.wasColdStart = @ \/ cold]
                      ELSE /\ check' = [check EXCEPT !.phase = "returned",
                                                     !.wasColdStart = @ \/ cold]
                           /\ UNCHANGED <<retries, waits>>
    /\ UNCHANGED options
    /\ UNCHANGED besidesHealth

\* sleep(delay) ends: the delay grows and the next attempt begins
SleepEnds ==
    /\ check.phase = "sleeping"
    /\ check' = [check EXCEPT !.phase = "fetching", !.attempts = @ + 1,
                              !.delay = NextDelay(@, options.maxDelay)]
    /\ UNCHANGED <<options, failures, retries, waits>>
    /\ UNCHANGED besidesHealth

HealthNext ==
    \/ \E o \in OptionSets : CheckBackendHealth(o)
    \/ \E outcome \in Outcomes, slow \in BOOLEAN : ProbeSettled(outcome, slow)
    \/ SleepEnds

(***************************************************************************)
(* SimulationEngine.                                                       *)
(***************************************************************************)
NoDeliveries == [k \in 1..MaxExchanges |-> 0]

SimulationInit ==
    /\ currentScenario = 0
    /\ currentExchangeIndex = 0
    /\ isRunning = FALSE
    /\ isPaused = FALSE
    /\ onAIMessageCallback = FALSE
    /\ onPatientMessageCallback = FALSE
    /\ onCompleteCallback = FALSE
    /\ inPlayExchange = <<>>
    /\ deliveredAI = NoDeliveries
    /\ deliveredPatient = NoDeliveries

\* the fields the engine's methods read and write, as one record
Engine ==
    [scenario |-> currentScenario, index |-> currentExchangeIndex,
     running |-> isRunning, paused |-> isPaused, calls |-> inPlayExchange,
     ai |-> deliveredAI, patient |-> deliveredPatient]

\* the fields after a method has run
EngineBecomes(e) ==
    /\ currentScenario' = e.scenario
    /\ currentExchangeIndex' = e.index
    /\ isRunning' = e.running
    /\ isPaused' = e.paused
    /\ inPlayExchange' = e.calls
    /\ deliveredAI' = e.ai
    /\ deliveredPatient' = e.patient
    /\ Len(e.calls) <= MaxCalls

\* one more delivery of the message of exchange k
Counted(count, k) == [count EXCEPT ![k] = Min(@ + 1, MaxDeliveries)]

\* playExchange(exchanges[index]) up to its first await: the AI message goes
\* to its callback and the call waits delay(2000)
PlayExchange(e, kind) ==
    [e EXCEPT !.calls = Append(@, [kind |-> kind, exchange |-> e.index + 1,
                                   at |-> "delay 2000", loaded |-> TRUE]),
              !.ai = IF onAIMessageCallback THEN Counted(@, e.index + 1) ELSE @]

\* the test that follows the exchanges in play() and in nextStep(): past the
\* last exchange onComplete is called; play() clears isRunning first
Completed(e, kind) ==
    IF e.index >= e.scenario /\ kind = "play"
      THEN [e EXCEPT !.running = FALSE]
      ELSE e

\* (mutant) the loop of play() goes on whatever the flags
LoopGoesOnAlways(e) == e.index < e.scenario

\* the condition of the while loop of play()
LoopGoesOn(e) == e.index < e.scenario /\ e.running /\ ~e.paused

\* play() from the test of its while loop on, up to its next await
PlayLoop(e) ==
    IF LoopGoesOn(e) THEN PlayExchange(e, "play") ELSE Completed(e, "play")

\* loadScenario(scenario); the calls inside playExchange hold exchanges of the
\* scenario that was loaded before
LoadScenario(n) ==
    /\ EngineBecomes([Engine EXCEPT
           !.scenario = n, !.index = 0, !.running = FALSE, !.paused = FALSE,
           !.calls = [c \in DOMAIN @ |-> [@[c] EXCEPT !.loaded = FALSE]],
           !.ai = NoDeliveries, !.patient = NoDeliveries])
    /\ UNCHANGED <<onAIMessageCallback, onPatientMessageCallback, onCompleteCallback>>
    /\ UNCHANGED besidesSimulation

\* play(); with no scenario it throws before it sets anything
Play ==
    /\ currentScenario # 0
    /\ EngineBecomes(PlayLoop([Engine EXCEPT !.running = TRUE, !.paused = FALSE]))
    /\ UNCHANGED <<onAIMessageCallback, onPatientMessageCallback, onCompleteCallback>>
    /\ UNCHANGED besidesSimulation

\* pause()
Pause ==
    /\ ~isPaused
    /\ isPaused' = TRUE
    /\ UNCHANGED <<currentScenario, currentExchangeIndex, isRunning,
                   onAIMessageCallback, onPatientMessageCallback,
                   onCompleteCallback, inPlayExchange, deliveredAI,
                   deliveredPatient>>
    /\ UNCHANGED besidesSimulation

\* resume(): when paused, isPaused is cleared and play() is called, which
\* throws with no scenario
Resume ==
    /\ isPaused
    /\ EngineBecomes(IF currentScenario = 0
                       THEN [Engine EXCEPT !.paused = FALSE]
                       ELSE PlayLoop([Engine EXCEPT !.running = TRUE,
                                                    !.paused = FALSE]))
    /\ UNCHANGED <<onAIMessageCallback, onPatientMessageCallback, onCompleteCallback>>
    /\ UNCHANGED besidesSimulation

\* nextStep() up to its await; past the last exchange it only calls onComplete
NextStep ==
    /\ currentScenario # 0
    /\ currentExchangeIndex < currentScenario
    /\ EngineBecomes(PlayExchange(Engine, "nextStep"))
    /\ UNCHANGED <<onAIMessageCallback, onPatientMessageCallback, onCompleteCallback>>
    /\ UNCHANGED besidesSimulation

\* reset()
Reset ==
    /\ EngineBecomes([Engine EXCEPT !.index = 0, !.running = FALSE,
                                    !.paused = FALSE, !.ai = NoDeliveries,
                                    !.patient = NoDeliveries])
    /\ UNCHANGED <<onAIMessageCallback, onPatientMessageCallback, onCompleteCallback>>
    /\ UNCHANGED besidesSimulation

\* stop()
Stop ==
    /\ isRunning \/ isPaused
    /\ EngineBecomes([Engine EXCEPT !.running = FALSE, !.paused = FALSE])
    /\ UNCHANGED <<onAIMessageCallback, onPatientMessageCallback, onCompleteCallback>>
    /\ UNCHANGED besidesSimulation

\* onAIMessage(callback), onPatientMessage(callback), onComplete(callback)
OnAIMessage ==
    /\ ~onAIMessageCallback
    /\ onAIMessageCallback' = TRUE
    /\ UNCHANGED <<currentScenario, currentExchangeIndex, isRunning, isPaused,
                   onPatientMessageCallback, onCompleteCallback, inPlayExchange,
                   deliveredAI, deliveredPatient>>
    /\ UNCHANGED besidesSimulation

OnPatientMessage ==
    /\ ~onPatientMessageCallback
    /\ onPatientMessageCallback' = TRUE
    /\ UNCHANGED <<currentScenario, currentExchangeIndex, isRunning, isPaused,
                   onAIMessageCallback, onCompleteCallback, inPlayExchange,
                   deliveredAI, deliveredPatient>>
    /\ UNCHANGED besidesSimulation

OnComplete ==
    /\ ~onCompleteCallback
    /\ onCompleteCallback' = TRUE
    /\ UNCHANGED <<currentScenario, currentExchangeIndex, isRunning, isPaused,
                   onAIMessageCallback, onPatientMessageCallback, inPlayExchange,
                   deliveredAI, deliveredPatient>>
    /\ UNCHANGED besidesSimulation

\* the n-th call inside playExchange goes on from its await.  After
\* delay(2000) the patient message goes to its callback and textToSpeech is
\* awaited, then delay(1500); after that playExchange returns, the caller
\* increments currentExchangeIndex, and play() goes back to its loop
AwaitEnds(n) ==
    /\ n \in 1..Len(inPlayExchange)
    /\ LET c == inPlayExchange[n]
           e == Engine
       IN CASE c.at = "delay 2000" ->
                 EngineBecomes([e EXCEPT
                     !.calls[n].at = "textToSpeech",
                     !.patient = IF onPatientMessageCallback /\ c.loaded
                                   THEN Counted(@, c.exchange) ELSE @])
            [] c.at = "textToSpeech" ->
                 EngineBecomes([e EXCEPT !.calls[n].at = "delay 1500"])
            [] OTHER ->
                 LET back == [e EXCEPT !.calls = Without(@, n), !.index = @ + 1]
                 IN EngineBecomes(IF c.kind = "play" THEN PlayLoop(back)
                                  ELSE Completed(back, "nextStep"))
    /\ UNCHANGED <<onAIMessageCallback, onPatientMessageCallback, onCompleteCallback>>
    /\ UNCHANGED besidesSimulation

SimulationNext ==
    \/ \E n \in 1..MaxExchanges : LoadScenario(n)
    \/ Play
    \/ Pause
    \/ Resume
    \/ NextStep
    \/ Reset
    \/ Stop
    \/ OnAIMessage
    \/ OnPatientMessage
    \/ OnComplete
    \/ \E n \in 1..MaxCalls : AwaitEnds(n)

vars == <<transportVars, playbackVars, transcriptVars, captureVars, framingVars,
          codecVars, standaloneVars>>

\* every component but the conversions, before any call
ComponentsInit ==
    /\ TransportInit /\ PlaybackInit /\ TranscriptInit /\ CaptureInit
    /\ FramingInit /\ HealthInit /\ SimulationInit

Init == ComponentsInit /\ CodecInit

\* convertToPCM16 is about to be given an array
PcmInit == ComponentsInit /\ \E arr \in PcmArrays : CodecGiven(arr, <<>>)

\* detectAudioFormat is about to be given a buffer
DetectInit == ComponentsInit /\ \E buf \in DetectInputs : CodecGiven(<<>>, buf)

SpecTransport == Init /\ [][TransportNext]_vars

SpecPlayback == Init /\ [][PlaybackNext]_vars

\* playback for each value the buffering threshold may be built with
GateInit ==
    /\ TransportInit /\ TranscriptInit /\ CaptureInit /\ FramingInit /\ CodecInit
    /\ HealthInit /\ SimulationInit
    /\ \E count \in 1..MaxThreshold : PlaybackWith(count)

SpecGate == GateInit /\ [][PlaybackNext]_vars

SpecTranscript == Init /\ [][TranscriptNext]_vars

SpecCapture == Init /\ [][CaptureNext]_vars

SpecInbound == Init /\ [][InboundNext]_vars

SpecSend == Init /\ [][SendNext]_vars

SpecFraming == Init /\ [][FramingNext]_vars

SpecPcm == PcmInit /\ [][PcmNext]_vars

SpecDetect == DetectInit /\ [][DetectNext]_vars

SpecHealth == Init /\ [][HealthNext]_vars

SpecSimulation == Init /\ [][SimulationNext]_vars

(***************************************************************************)
(* What the platform guarantees: a timer that was set fires, a health      *)
(* probe returns (it carries a 2 s timeout), a backoff sleep ends, and a   *)
(* socket that is CONNECTING or CLOSING settles.  Nothing obliges the peer *)
(* to close an open socket, nor the caller to call anything.               *)
(***************************************************************************)
Settle(i) ==
    /\ chain[i].phase \in {"CONNECTING", "CLOSING"}
    /\ (SocketOpen(i) \/ \E withError \in BOOLEAN : SocketClose(i, withError))

TransportFairness ==
    \A i \in Chains :
        /\ WF_vars(TimerFire(i))
        /\ WF_vars(\E ok \in BOOLEAN : ProbeReturn(i, ok))
        /\ WF_vars(Wake(i))
        /\ WF_vars(Settle(i))

SpecTransportFair == SpecTransport /\ TransportFairness

(***************************************************************************)
(* Reading the last step.                                                  *)
(***************************************************************************)
SendOps == {"sendAudio", "sendControl", "endSession"}

InSeq(x, seq) == \E n \in 1..Len(seq) : seq[n] = x

Kinds(seq) == {seq[n][1] : n \in 1..Len(seq)}

LiveSockets == {i \in Chains : chain[i].phase \in SocketPhases}

\* a step of the automatic reconnect machinery: the retry observer is told,
\* a reconnect timer is set or fires, or a socket is created
ReconnectActivity ==
    \/ ev.op = "timer"
    \/ Kinds(ev.cbs) \cap {"retry", "setTimeout"} # {}
    \/ ev.made \in {"probe_ok", "timed_out"}

(***************************************************************************)
(* C1 (as claimed): after disconnect() the client makes no automatic       *)
(* reconnect attempt until the caller calls connect() again: the retry     *)
(* observer is not invoked, no reconnect timer is set or fires, and no     *)
(* socket is created.                                                      *)
(***************************************************************************)
C1_Original == afterDisconnect => ~ReconnectActivity

(***************************************************************************)
(* C2: every close that finds budget left reports (attempt, maxAttempts)   *)
(* to the retry observer and sets the timer to reconnectDelay x attempt; a *)
(* close that finds none reports nothing and sets no timer.  The reports   *)
(* received since the last open are numbered 1..n in order, n at most      *)
(* maxReconnectAttempts, with non-decreasing delays.                       *)
(***************************************************************************)
C2_Backoff ==
    /\ ev.op = "close" =>
          LET before == ev.res[1]
          IN IF before < maxReconnectAttempts
               THEN /\ "retry" \in handlers =>
                          InSeq(<<"retry", before + 1, maxReconnectAttempts>>, ev.cbs)
                    /\ InSeq(<<"setTimeout", reconnectDelay * (before + 1)>>, ev.cbs)
                    /\ chain[ev.who].phase = "timer"
               ELSE Kinds(ev.cbs) \cap {"retry", "setTimeout"} = {}
    /\ "retry" \in handlers => Len(retrySeq) = sinceOpen
    /\ Len(retrySeq) <= maxReconnectAttempts
    /\ \A n \in 1..Len(retrySeq) :
          /\ retrySeq[n].attempt = n
          /\ retrySeq[n].max = maxReconnectAttempts
          /\ retrySeq[n].delay = reconnectDelay * n
          /\ n > 1 => retrySeq[n - 1].delay <= retrySeq[n].delay

C2_Witness ==
    /\ ev.op = "close"
    /\ Len(retrySeq) = maxReconnectAttempts
    /\ retrySeq[maxReconnectAttempts].delay = 5000

(***************************************************************************)
(* C3 (as claimed): the number of automatic reconnect attempts is finite   *)
(* in every execution: from some point on no reconnect timer is pending.   *)
(***************************************************************************)
C3_Original == <>[](\A i \in Chains : chain[i].phase # "timer")

(***************************************************************************)
(* C3 (amended): the reconnect attempts made since the last successful     *)
(* open (or since construction) never exceed maxReconnectAttempts.         *)
(***************************************************************************)
C3_Budget ==
    /\ sinceOpen <= maxReconnectAttempts
    /\ sinceOpen = reconnectAttempts \/ exhausted

C3_Witness == exhausted /\ sinceOpen = maxReconnectAttempts /\ ev.op = "close"

(***************************************************************************)
(* C4 (as claimed): once the budget is exhausted the terminal error has    *)
(* been reported exactly once and the client stays disconnected until the  *)
(* caller calls connect(): no timer, no connect() in flight, no socket.    *)
(***************************************************************************)
C4_Original ==
    exhausted =>
        /\ \A i \in Chains : chain[i].phase \in {"idle", "dead"}
        /\ "error" \in handlers => terminalErrors = 1

(***************************************************************************)
(* C5 (as claimed): every socket is created right after a health probe of  *)
(* the same connect() call returned success.                               *)
(***************************************************************************)
C5_Original ==
    /\ ev.made # "timed_out"
    /\ \A i \in Chains : chain[i].via # "timed_out"

(***************************************************************************)
(* C5 (amended): a socket is created either in the step in which a probe   *)
(* of the same connect() call returns success, or when the call wakes from *)
(* its backoff sleep and finds that the failed-probe counter has reached   *)
(* maxHealthCheckAttempts (it gives up waiting and connects anyway).       *)
(***************************************************************************)
C5_Gate ==
    /\ ev.made = "probe_ok" => ev.op = "probe"
    /\ ev.made = "timed_out" =>
          ev.op = "wake" /\ healthCheckAttempts >= maxHealthCheckAttempts
    /\ \A i \in Chains :
          chain[i].phase = "CONNECTING" <=> chain[i].via \in {"probe_ok", "timed_out"}

C5_Witness == ev.made = "timed_out" /\ chain[ev.who].phase = "CONNECTING"

C7_Perishable ==
    /\ ev.op \in SendOps =>
          IF ws # 0 /\ chain[ws].phase = "OPEN"
            THEN Len(ev.sent) = 1 /\ ev.sent[1].to = ws /\ ev.made = "sent"
            ELSE ev.sent = <<>> /\ ev.made = "dropped"
    /\ ev.op \notin SendOps => ev.sent = <<>>

C7_Witness ==
    /\ ev.op = "sendAudio"
    /\ ev.made = "dropped"
    /\ ws # 0
    /\ chain[ws].phase = "CONNECTING"

(***************************************************************************)
(* C8 (as claimed): at most one socket that is not closed carries this     *)
(* client's handlers.                                                      *)
(***************************************************************************)
C8_Original == Cardinality(LiveSockets) <= 1

(***************************************************************************)
(* C9: gapless scheduling.  Of the buffers scheduled one after the other   *)
(* with the cursor never behind the clock and no idle reset or             *)
(* stopPlayback() in between, the n-th starts at the first one's start     *)
(* time plus the durations of the n-1 before it.                           *)
(***************************************************************************)
RECURSIVE SumDur(_, _)
SumDur(seq, n) == IF n = 0 THEN 0 ELSE seq[n].dur + SumDur(seq, n - 1)

C9_Gapless ==
    \A n \in 1..Len(run) : run[n].start = run[1].start + SumDur(run, n - 1)

C9_Witness ==
    /\ Len(run) >= 3
    /\ run[1].dur # run[2].dur
    /\ run[1].start > 0

(***************************************************************************)
(* C10: zero overlap.  Of two sources in flight, the one scheduled later   *)
(* starts no earlier than the end of the one scheduled before it.          *)
(***************************************************************************)
C10_NoOverlap ==
    \A a, b \in 1..Len(scheduledSources) :
        a < b => scheduledSources[b].start >=
                     scheduledSources[a].start + scheduledSources[a].dur

\* two sources in flight with a stall between them, after a stopPlayback()
C10_Witness ==
    /\ Len(scheduledSources) >= 2
    /\ staleEnded > 0
    /\ scheduledSources[2].start >
           scheduledSources[1].start + scheduledSources[1].dur

(***************************************************************************)
(* C11 (as claimed): buffers are scheduled in the order their chunks       *)
(* arrived: no chunk is pushed and scheduled after a chunk that arrived    *)
(* later than it, whatever the order in which resume() and                 *)
(* decodeAudioData settle.                                                 *)
(***************************************************************************)
C11_Original == ~pev.reordered

(***************************************************************************)
(* C12: stopPlayback().  From every state, stopPlayback() stops and drops  *)
(* every source in flight, empties the queue, sets isPlaying and           *)
(* hasStartedPlayback to false and nextPlaybackTime to 0, and leaves the   *)
(* playback context as it was; stopPlayback() called again changes         *)
(* nothing.                                                                *)
(***************************************************************************)
C12_Stop ==
    /\ LET t == Stopped(Fields)
       IN /\ t.sources = <<>>
          /\ t.stale = staleEnded + Len(scheduledSources)
          /\ t.queue = <<>>
          /\ ~t.playing
          /\ t.cursor = 0
          /\ ~t.started
          /\ t.ctx = playbackContext
          /\ t.clock = clock
          /\ Stopped(t) = t
    /\ pev.op = "stop" =>
          /\ scheduledSources = <<>>
          /\ audioQueue = <<>>
          /\ ~isPlaying
          /\ nextPlaybackTime = 0
          /\ ~hasStartedPlayback

\* stopPlayback() has just stopped two sources in flight on a running context
C12_Witness ==
    /\ pev.op = "stop"
    /\ pev.stopped >= 2
    /\ staleEnded >= 2
    /\ playbackContext = "running"

(***************************************************************************)
(* C13: playAudioChunk lets no conversion error out.  No call ends with an *)
(* error; a chunk is dropped only when it cannot be converted as raw PCM   *)
(* (so a chunk whose decode failed, and a chunk whose primary path threw,  *)
(* are converted as raw PCM when they can be); and a step that only drops  *)
(* leaves the queue, the cursor, the sources in flight and isPlaying as    *)
(* they were.                                                              *)
(***************************************************************************)
C13_NoThrow ==
    /\ [](/\ ~pev.rejected
          /\ \A n \in 1..Len(pev.dropped) : ~Convertible(pev.dropped[n]))
    /\ [][(pev'.dropped # <<>> /\ pev'.pushed = 0) =>
             UNCHANGED <<audioQueue, nextPlaybackTime, scheduledSources, isPlaying>>]_vars

\* a chunk of odd length has just been dropped while a source is in flight
C13_Witness ==
    /\ pev.op = "play"
    /\ pev.dropped = <<3>>
    /\ isPlaying
    /\ Len(scheduledSources) >= 1

C15_RoleSwitch ==
    [][(/\ tev'.op = "append"
        /\ lastRole \notin {"null", tev'.role}
        /\ Trim(ChunkOf(lastRole, currentAIChunk, currentPatientChunk)) # <<>>)
       => /\ messages' = Append(messages,
                 Msg(lastRole,
                     Trim(ChunkOf(lastRole, currentAIChunk, currentPatientChunk))))
          /\ ChunkOf(lastRole, currentAIChunk', currentPatientChunk') = <<>>
          /\ ChunkOf(tev'.role, currentAIChunk', currentPatientChunk') = tev'.chunk
          /\ lastRole' = tev'.role]_vars

\* (ai, "a") (ai, " ") (ai, "a") (patient, "a") has just emitted {ai, "a a"}
C15_Witness ==
    /\ tev = [op |-> "append", role |-> "patient", chunk |-> <<"a">>, emitted |-> 1]
    /\ messages = <<Msg("ai", <<"a", " ", "a">>)>>
    /\ currentAIChunk = <<>>
    /\ currentPatientChunk = <<"a">>
    /\ lastRole = "patient"

(***************************************************************************)
(* C16: chunks of the same role accumulate.  When appendTranscriptChunk is *)
(* called with the role lastRole already is, the chunk is appended to that *)
(* role's accumulator and the messages are left as they were.              *)
(***************************************************************************)
C16_SameRole ==
    [][(tev'.op = "append" /\ tev'.role = lastRole)
       => /\ messages' = messages
          /\ ChunkOf(lastRole, currentAIChunk', currentPatientChunk') =
                 ChunkOf(lastRole, currentAIChunk, currentPatientChunk) \o tev'.chunk
          /\ lastRole' = lastRole]_vars

\* the third chunk in a row of one role has been accumulated, no message emitted
C16_Witness ==
    /\ tev.op = "append"
    /\ tev.role = "ai"
    /\ tev.chunk = <<"a">>
    /\ tev.emitted = 0
    /\ lastRole = "ai"
    /\ currentAIChunk = <<"a", " ", "a">>
    /\ messages = <<>>

(***************************************************************************)
(* C17 (as claimed): finalizeCurrentMessage() emits a message exactly when *)
(* the trimmed accumulator of lastRole is not empty, and in every case     *)
(* leaves both accumulators empty and lastRole null.                       *)
(***************************************************************************)
C17_Original ==
    tev.op = "finalize" =>
        /\ currentAIChunk = <<>>
        /\ currentPatientChunk = <<>>
        /\ lastRole = "null"

(***************************************************************************)
(* C18 (as claimed): at most one of the two accumulators is a non-empty    *)
(* string, and a non-empty accumulator is the one of lastRole.             *)
(***************************************************************************)
C18_Original ==
    /\ currentAIChunk = <<>> \/ currentPatientChunk = <<>>
    /\ currentAIChunk # <<>> => lastRole = "ai"
    /\ currentPatientChunk # <<>> => lastRole = "patient"

(***************************************************************************)
(* C19 (as claimed): the error handler is invoked only with the terminal   *)
(* 'Failed to reconnect' error and for a frame of type 'error' sent by the *)
(* peer; a socket error or drop with reconnect budget left is reported to  *)
(* the retry observer alone.                                               *)
(***************************************************************************)
C19_Original ==
    \A n \in 1..Len(ev.cbs) :
        (ev.cbs[n][1] = "error" /\ ev.op # "message")
            => ev.cbs[n] = <<"error", "terminal">>

(***************************************************************************)
(* C20: dispatch of text frames.  A frame invokes at most one handler, the *)
(* one of its type, and only if it is registered; a transcript frame with  *)
(* role r and text t gives the transcript handler {role: r, text: t}, an   *)
(* extracted_data frame gives the data handler its data; status,           *)
(* turn_complete, intake_complete and error frames reach only their own    *)
(* handler.  (A frame is handled to its end within its message event, and  *)
(* message events are fired in arrival order.)                             *)
(***************************************************************************)
HandlerOf(type) ==
    CASE type \in {"transcript", "text"} -> {"transcript"}
      [] type \in {"audio", "binary"} -> {"audio"}
      [] type = "extracted_data" -> {"data"}
      [] type = "status" -> {"status"}
      [] type = "error" -> {"error"}
      [] type = "turn_complete" -> {"turnComplete"}
      [] type = "intake_complete" -> {"intakeComplete"}
      [] OTHER -> {}

C20_Dispatch ==
    ev.op = "message" =>
        LET f == ev.res[1]
        IN /\ Len(ev.cbs) <= 1
           /\ Kinds(ev.cbs) \subseteq (HandlerOf(f.type) \cap handlers)
           /\ (f.type = "transcript" /\ f.role # Absent /\ f.text # Absent
                  /\ "transcript" \in handlers)
                => ev.cbs = <<<<"transcript", [role |-> f.role, text |-> f.text]>>>>
           /\ (f.type = "extracted_data" /\ "data" \in handlers)
                => ev.cbs = <<<<"data", f.data>>>>
           /\ (f.type \in {"status", "turn_complete", "intake_complete", "error"}
                  /\ HandlerOf(f.type) \subseteq handlers)
                => Kinds(ev.cbs) = HandlerOf(f.type)

\* a transcript frame of the patient has just reached the transcript handler,
\* on a socket the client no longer holds in this.ws
C20_Witness ==
    /\ ev.op = "message"
    /\ ev.res[1].type = "transcript"
    /\ ev.cbs = <<<<"transcript", [role |-> "patient", text |-> "hi"]>>>>
    /\ ws # ev.who

(***************************************************************************)
(* C21: a text frame of an unknown type, or that is no JSON, is dropped.   *)
(* No handler is invoked and no error leaves the message handler; the step *)
(* leaves this.ws, the socket, the reconnect and probe counters and the    *)
(* registered handlers as they were; and the frame that comes next is      *)
(* handled as any other: when its type is known and its handler            *)
(* registered, that handler is invoked.                                    *)
(***************************************************************************)
UnknownFrame(e) ==
    e.op = "message" /\ e.res[1].type \notin KnownTypes \cup {"binary"}

C21_Dropped ==
    /\ [](UnknownFrame(ev) => ev.cbs = <<>> /\ ev.made \in {"caught", "unknown"})
    /\ [][UnknownFrame(ev') =>
             UNCHANGED <<ws, chain, reconnectAttempts, healthCheckAttempts, handlers>>]_vars
    /\ []((/\ ev.op = "message"
           /\ ev.res[2] # "none"
           /\ ev.res[1].type \in KnownTypes \ {"audio"}
           /\ HandlerOf(ev.res[1].type) \subseteq handlers)
              => Kinds(ev.cbs) = HandlerOf(ev.res[1].type) /\ ev.made = "handled")

\* a status frame has reached the status handler right after a frame that was
\* no JSON was dropped
C21_Witness ==
    /\ ev.op = "message"
    /\ ev.res[1].type = "status"
    /\ ev.res[2] = "caught"
    /\ ev.cbs = <<<<"status", "listening">>>>

(***************************************************************************)
(* C22: the promise of connect().  It resolves in the open event of the    *)
(* socket the call created, after the onConnected handler (when one is     *)
(* registered) was invoked once for that open, and in no other step; a     *)
(* socket that reports an error without having opened rejects it; and a    *)
(* resolved promise is the promise of a socket that opened.                *)
(***************************************************************************)
C22_Promise ==
    /\ [](ev.op = "open" =>
             ev.cbs = (IF "connected" \in handlers THEN <<<<"connected">>>> ELSE <<>>)
                      \o <<<<"resolved">>>>)
    /\ []("resolved" \in Kinds(ev.cbs) =>
             ev.op = "open" /\ chain[ev.who].phase = "OPEN")
    /\ [](\A i \in Chains :
             /\ chain[i].promise = "resolved" => chain[i].phase \in {"OPEN", "CLOSING"}
             /\ chain[i].phase = "OPEN" => chain[i].promise = "resolved"
             /\ chain[i].phase \in CallPhases \cup {"CONNECTING"}
                    => chain[i].promise = "pending")
    /\ [][\A i \in Chains :
             /\ (chain'[i].promise = "resolved" /\ chain[i].promise # "resolved")
                    => (/\ chain[i].phase = "CONNECTING"
                        /\ chain'[i].phase = "OPEN"
                        /\ ev'.op = "open" /\ ev'.who = i)
             /\ (/\ ev'.op = "close" /\ ev'.who = i /\ ev'.made = "error"
                 /\ chain[i].promise = "pending")
                    => (/\ "rejected" \in Kinds(ev'.cbs)
                        /\ "resolved" \notin Kinds(ev'.cbs))]_vars

\* the promise of a reconnect resolves, the onConnected handler told first
C22_Witness ==
    /\ ev.op = "open"
    /\ ev.cbs = <<<<"connected">>, <<"resolved">>>>
    /\ chain[ev.who].promise = "resolved"
    /\ sinceOpen = 0
    /\ retriesInCall > 0

(***************************************************************************)
(* C23 (as claimed), for a client on which connect() was called once:      *)
(* after disconnect() closed the open socket, the onDisconnected handler   *)
(* is invoked once, whatever follows and however many times disconnect()   *)
(* is called again, until the caller calls connect().                      *)
(***************************************************************************)
C23_Original ==
    (connects = 1 /\ "disconnected" \in handlers) => disconnectedCalls <= 1

(***************************************************************************)
(* C24 (as claimed): once stopCapture() has returned, and until a stream   *)
(* is granted or startCapture() is called again, no capture node is        *)
(* connected and no frame is delivered to the frame callback, in the       *)
(* worklet path and in the legacy path.                                    *)
(***************************************************************************)
C24_Original ==
    released =>
        /\ delivered = 0
        /\ \A n \in 1..Len(graphs) : ~graphs[n].fed /\ ~graphs[n].out

(***************************************************************************)
(* C27 (as claimed): when requestMicrophoneAccess() has returned false, no *)
(* media stream is held (so that a startCapture() that follows throws      *)
(* 'Microphone access not granted' before it creates any node).            *)
(***************************************************************************)
C27_Original == returned = "false" => mediaStream = 0

\* the samples of a sequence of frames, in order
RECURSIVE Flat(_)
Flat(frames) == IF frames = <<>> THEN <<>> ELSE Head(frames) \o Flat(Tail(frames))

(***************************************************************************)
(* C25: every frame the capture worklet emits has exactly bufferSize       *)
(* samples (4096 in the program); whatever the sizes of the blocks given   *)
(* to process(), the samples pending in the buffer are the last            *)
(* Len(input) mod bufferSize samples captured, always fewer than           *)
(* bufferSize, and the frames emitted, one after the other, are the        *)
(* conversion of the samples before them, sample for sample and in capture *)
(* order.                                                                  *)
(***************************************************************************)
C25_Framing ==
    /\ \A k \in 1..Len(port) : Len(port[k]) = bufferSize
    /\ \A k \in 1..Len(workletFrames) : Len(workletFrames[k]) = bufferSize
    /\ Len(buffer) < bufferSize
    /\ Len(buffer) = Len(input) % bufferSize
    /\ buffer = SubSeq(input, Len(input) - Len(buffer) + 1, Len(input))
    /\ ~missed =>
         Flat(workletFrames \o port)
           = [i \in 1..(Len(input) - Len(buffer)) |-> WorkletSample(input[i])]

\* two different frames were emitted and received, and a sample is pending
C25_Witness ==
    /\ ~missed
    /\ Len(workletFrames) = 2
    /\ workletFrames[1] # workletFrames[2]
    /\ Len(buffer) = 1
    /\ Len(input) = 2 * bufferSize + 1

(***************************************************************************)
(* C26: fed the same samples, with a frame callback registered whenever a  *)
(* frame arrives, the worklet path and the legacy path give the callback   *)
(* the same frames in the same order: the frames given and still to give   *)
(* are the same sequence in both paths, every one of bufferSize samples,   *)
(* and the samples not yet framed are the same.                            *)
(***************************************************************************)
C26_SameFrames ==
    /\ \A k \in 1..Len(legacyFrames) : Len(legacyFrames[k]) = bufferSize
    /\ buffer = scriptBuffer
    /\ ~missed =>
         /\ workletFrames \o port
              = legacyFrames \o [k \in 1..Len(events) |-> convertToPCM16(events[k])]
         /\ (port = <<>> /\ events = <<>>) => workletFrames = legacyFrames

\* both paths have given the callback the same two different frames, one of
\* them with a clamped sample
C26_Witness ==
    /\ ~missed
    /\ port = <<>> /\ events = <<>>
    /\ Len(legacyFrames) = 2
    /\ workletFrames = legacyFrames
    /\ legacyFrames[1] # legacyFrames[2]
    /\ \E j \in 1..bufferSize : legacyFrames[1][j] = -32768

\* the first n bytes of a buffer that has them
StartsWith(buf, sig) == Len(buf) >= Len(sig) /\ SubSeq(buf, 1, Len(sig)) = sig

Distance(a, b) == IF a >= b THEN a - b ELSE b - a

\* one step of the 16-bit scale, 1/32768
Step == Scale \div 32768

(***************************************************************************)
(* C29 (as claimed): a sample in [-1, 1] converted by convertToPCM16 and   *)
(* back by pcm16ToAudioBuffer is within one quantization step (1/32768) of *)
(* itself; -1 becomes -32768 and 1 becomes 32767; and whatever the sample, *)
(* the integer is in the signed 16-bit range.                              *)
(***************************************************************************)
C29_Original ==
    channelData # <<>> =>
        \A i \in 1..Len(float32Array) :
            /\ (-Scale <= float32Array[i] /\ float32Array[i] <= Scale)
                   => Distance(channelData[i], float32Array[i]) <= Step
            /\ float32Array[i] = -Scale => Int16At(pcmData, i) = -32768
            /\ float32Array[i] = Scale => Int16At(pcmData, i) = 32767
            /\ Int16At(pcmData, i) \in -32768..32767

(***************************************************************************)
(* C30 (as claimed), for the first failed probe of a connect() call: the   *)
(* wait after the k-th failed probe of a call is min(500 k, 3000) ms, so   *)
(* the first wait of every call is 500 ms.                                 *)
(***************************************************************************)
C30_Original ==
    (ev.op = "probe" /\ ev.made = "none" /\ ev.res[2]) => ev.res[1] = Min(500, 3000)

(***************************************************************************)
(* C31 (as claimed): when a source has just ended and left no source in    *)
(* flight and an empty queue, the scheduler is in the state of a session   *)
(* start: isPlaying false, nextPlaybackTime 0, and the initial-buffering   *)
(* gate armed again (hasStartedPlayback false).                            *)
(***************************************************************************)
C31_Original ==
    (pev.op = "ended" /\ scheduledSources = <<>> /\ audioQueue = <<>>)
        => (~isPlaying /\ nextPlaybackTime = 0 /\ ~hasStartedPlayback)

(***************************************************************************)
(* C34 (as claimed): a playAudioChunk call that is waiting on resume() or  *)
(* decodeAudioData when stopPlayback() returns pushes no buffer when its   *)
(* promise settles next.                                                   *)
(***************************************************************************)
C34_Original ==
    [][(pev.op = "stop" /\ pending # <<>> /\ pev'.op \in {"resume", "decode"})
          => pev'.pushed = 0]_vars

(***************************************************************************)
(* C35: isPlaying is true only while a scheduled source is in flight; the  *)
(* step in which the last source in flight ends leaves isPlaying false.    *)
(***************************************************************************)
C35_PlayingHasSource ==
    /\ isPlaying => scheduledSources # <<>>
    /\ (pev.op \in {"ended", "stale"} /\ scheduledSources = <<>>) => ~isPlaying

\* the last of two sources has just ended, after playback with two in flight
C35_Witness ==
    /\ pev.op = "ended"
    /\ scheduledSources = <<>>
    /\ ~isPlaying
    /\ hasStartedPlayback
    /\ clock >= 2

C36_Original ==
    [][~grantedSince =>
          ~(\/ loading' > loading
            \/ loading' = loading /\ Len(graphs') > Len(graphs))]_vars

(***************************************************************************)
(* C37: through any calls of appendTranscriptChunk and                     *)
(* finalizeCurrentMessage the store holds exactly one message for each     *)
(* maximal run of same-role chunks that held text, in the order of the     *)
(* runs, with the role of the run and the trimmed concatenation of its     *)
(* chunks as content; a message made by these calls is never empty and     *)
(* carries no outer whitespace.                                            *)
(***************************************************************************)
C37_Runs ==
    /\ messages = expected
    /\ (tev.op \in {"append", "finalize"} /\ tev.emitted > 0) =>
          /\ messages[Len(messages)].content # <<>>
          /\ Trim(messages[Len(messages)].content) = messages[Len(messages)].content

\* two runs, the first with a space inside and closed by the change of role,
\* the second closed by finalizeCurrentMessage
C37_Witness ==
    /\ tev.op = "finalize" /\ tev.emitted = 1
    /\ messages = <<Msg("ai", <<"a", " ", "a">>), Msg("patient", <<"a">>)>>

(***************************************************************************)
(* C33.  What the retry loop of checkBackendHealth keeps whatever the      *)
(* options: at most maxRetries probes; a healthy answer ends the call at   *)
(* once; onRetry is called once after each failed probe but the last       *)
(* allowed one; isHealthy false is returned only after maxRetries failed   *)
(* probes.                                                                 *)
(***************************************************************************)
BoundedRetries ==
    /\ check.attempts <= options.maxRetries
    /\ check.isHealthy => (check.phase = "returned" /\ check.attempts = failures + 1)
    /\ check.phase = "fetching" => failures = check.attempts - 1
    /\ Len(retries) <= options.maxRetries - 1
    /\ options.onRetry => Len(retries) = Min(failures, options.maxRetries - 1)
    /\ (check.phase = "returned" /\ ~check.isHealthy) => failures = options.maxRetries

C38_Original ==
    \A k \in 1..MaxExchanges : deliveredAI[k] <= 1 /\ deliveredPatient[k] <= 1

\* this.currentExchangeIndex / exchanges.length * 100, its whole part
progress ==
    IF currentScenario = 0 THEN 0
    ELSE (currentExchangeIndex * 100) \div currentScenario

(***************************************************************************)
(* C39 (as claimed): currentExchangeIndex never exceeds the number of      *)
(* exchanges of the loaded scenario, and progress never exceeds 100.  Two  *)
(* calls inside playExchange each increment the index when they return.    *)
(***************************************************************************)
C39_Original ==
    /\ currentExchangeIndex <= currentScenario
    /\ progress <= 100

====
